---- MODULE Spec2Model ----
(***************************************************************************)
(* A model of the NRN transformation pipeline (goatsweater/nrn-rrn).       *)
(*                                                                         *)
(* Several parts of the pipeline are modelled, each with its own           *)
(* specification over its own group of variables:                          *)
(*   SpecKml     stage 5: Stage.define_kml_groups and Stage.export_data    *)
(*   SpecJunc    geobasenrn.junctions.build_junctions                      *)
(*   SpecStage1  stage 1: split_strplaname .. filter_and_relink_strplaname *)
(*   SpecConvert geobasenrn.nrn.convert: options, configuration, source    *)
(*               data, junctions                                           *)
(*   SpecS4      apply_domains and clean_datasets on text, run twice       *)
(*   SpecUrl     geobasenrn.io.get_url                                     *)
(*   SpecRelease stage 5: Stage.configure_release_version                  *)
(*   SpecIncr    field_map_functions.incrementor                           *)
(*   SpecMap     geobasenrn.tools.apply_functions_to_fields                *)
(*   SpecCheck   geobasenrn.validation: run_checks, DateCheck,             *)
(*               SpeedLimitCheck                                           *)
(* A specification leaves the variables of the other parts at their idle   *)
(* values.                                                                 *)
(***************************************************************************)
EXTENDS Integers, Sequences, FiniteSets, TLC

VARIABLES
    \* ---- stage 5, KML partition and export
    kml_pc,         \* "start" | "grouped" | "exported"
    roadseg,        \* the kml roadseg table: sequence of rows [l_placenam, r_placenam]
    kml_groups,     \* Stage.kml_groups: lang -> sequence of [names, queries]
    kml_files,      \* written KML files: lang -> (file name -> sequence of ROWIDs)
    \* ---- junctions.build_junctions
    junc_pc,              \* "input" | "built" | "raised"
    junc_raised,          \* the line of junctions.py where build_junctions raised, 0 if none
    geopandas_keep_geom_type,  \* whether gpd.overlay of the installed geopandas takes keep_geom_type
    geometry_name,        \* the name of the geometry column of road_df and of ferry_df
    road_df,              \* roadseg lines: sequence of rows [geometry, exitnbr, accuracy]
    ferry_df,             \* ferryseg lines: sequence of rows [geometry]
    admin_boundary_poly,  \* the boundary polygon, as the set of points within it
    road_juncs,           \* build_junctions' frame of road intersections
    ferry_juncs,          \* build_junctions' frame of road/ferry contacts
    dead_ends,            \* build_junctions' frame of dead-ends, after re-classification
    junctions,            \* the frame build_junctions returns
    \* ---- stage 1, strplaname split, recovery, domains, cleanup, de-duplication
    s1_pc,            \* the next step of Stage.execute, "export_gpkg" at the end, "exit" on error
    s1_err,           \* the exception that ended the run, "" if none
    target_gdframes,  \* the names of the tables held by self.target_gdframes
    domains,          \* the names of the tables self.domains has an entry for
    strplaname,       \* rows [uuid, nid, namebody, placename]
    addrange,         \* rows [uuid, nid, l_offnanid, r_offnanid]
    altnamlink,       \* rows [uuid, nid, strnamenid, credate, revdate]
    dframes_old,      \* previous vintage: [addrange, altnamlink], <<>> where it has none
    uuid_count,       \* the number of uuid4 values drawn so far
    split_in,         \* the tables split_strplaname started from
    split_lookup,     \* split_strplaname's nid_lookup, a sequence of <<key, value>>
    filter_in,        \* the tables filter_and_relink_strplaname started from
    filter_lookup,    \* filter_and_relink_strplaname's nid_lookup
    \* ---- nrn convert
    cv_pc,            \* the next step of convert, "done" at the end, "exit" on error
    cv_err,           \* the exception that ended convert, "" if none
    cv_steps,         \* the steps of convert completed so far, in order
    cv_args,          \* the options of the command line: boundary, output_suffix, province_code
    config_files,     \* the configuration files given on the command line
    source_roads,     \* the rows of the data source roads
    source_ferries,   \* the rows of the data source ferries
    source_config,    \* the options dictionary of get_source_config
    dframes,          \* convert's dframes: layer name -> rows
    previous_dframes, \* the layers of the previous vintage GeoPackage
    gpkg,             \* the layers written to the output GeoPackage
    \* ---- domains and cleanup on text
    s4_pc,            \* the next step: apply_domains, clean_datasets, "done", "exit" on error
    s4_err,           \* the exception that ended the run, "" if none
    s4_tables,        \* the names of the tables held by self.target_gdframes
    s4_ferryseg,      \* the number of rows of ferryseg, 0 without that table
    s4_domains,       \* the fields of self.domains["roadseg"], in the order of its items
    s4_table,         \* the rows of roadseg: [nid, roadsegid, rtename1en, pavstatus]
    s4_before,        \* the rows before the last apply_domains
    \* ---- io.get_url
    url_pc,           \* "loop" | "returned response" | "returned None" | "raised"
    url_attempt,      \* the loop variable attempt
    url_requests,     \* the number of calls of requests.get so far
    url_sleeps,       \* the number of calls of time.sleep so far
    max_attempts,     \* the argument max_attempts
    url_fails,        \* url_fails[k]: the k-th call of requests.get raises
    \* ---- stage 5, release version
    rel_pc,           \* "configure_release_version" | "done"
    rel_numbers,      \* the numbers in the url of the previous vintage's first resource
    release_year,     \* the year of metadata_created of the previous vintage
    now_year,         \* datetime.now().year
    major_version,    \* Stage.major_version, "None" until configured
    minor_version,    \* Stage.minor_version, "None" until configured
    \* ---- field_map_functions.incrementor
    counter,          \* the row of table counter: column name -> integer
    inc_args,         \* the start and step each counter name is called with
    inc_calls,         \* the calls made so far: [column, count], count the value returned
    \* ---- geobasenrn.tools.apply_functions_to_fields
    fm_pc,            \* "call" | "returned" | "raised"
    field_schema,     \* field_schema['functions']: sequence of [function, pattern]
    fm_applied,       \* the indices of the entries whose function was called and returned
    fm_ignored,       \* the indices of the entries logged as ignored
    fm_err,            \* the exception that left the function, "" when none
    \* ---- geobasenrn.validation: DataFrameChecker, DateCheck, SpeedLimitCheck
    chk_runs,         \* the number of calls of run_checks made so far
    chk_df,           \* the table the checks were constructed on: rows [nid, credate, speed]
    checks,           \* DataFrameChecker.checks: the classes of the registered checkers
    failures,         \* ValidationCheck.failures of each checker
    results,          \* DataFrameChecker.results
    chk_returns       \* each checker.run() made: [check, result, reported]

kmlvars == <<kml_pc, roadseg, kml_groups, kml_files>>

juncvars == <<junc_pc, junc_raised, geopandas_keep_geom_type, geometry_name,
              road_df, ferry_df, admin_boundary_poly,
              road_juncs, ferry_juncs, dead_ends, junctions>>

s1vars == <<s1_pc, s1_err, target_gdframes, domains, strplaname, addrange, altnamlink,
            dframes_old, uuid_count, split_in, split_lookup, filter_in, filter_lookup>>

cvvars == <<cv_pc, cv_err, cv_steps, cv_args, config_files, source_roads, source_ferries,
            source_config, dframes, previous_dframes, gpkg>>

\* the variables of the parts added after the first three
s4vars == <<s4_pc, s4_err, s4_tables, s4_ferryseg, s4_domains, s4_table, s4_before>>

urlvars == <<url_pc, url_attempt, url_requests, url_sleeps, max_attempts, url_fails>>

relvars == <<rel_pc, rel_numbers, release_year, now_year, major_version, minor_version>>

incvars == <<counter, inc_args, inc_calls>>

fmvars == <<fm_pc, field_schema, fm_applied, fm_ignored, fm_err>>

chkvars == <<chk_runs, chk_df, checks, failures, results, chk_returns>>

auxvars == <<cvvars, s4vars, urlvars, relvars, incvars, fmvars, chkvars>>

vars == <<kmlvars, juncvars, s1vars, auxvars>>

\* the parts added after the first three are idle, but for part p
AuxOff(p) ==
    /\ p # "convert" =>
           /\ cv_pc = "off"
           /\ cv_err = ""
           /\ cv_steps = <<>>
           /\ cv_args = <<>>
           /\ config_files = <<>>
           /\ source_roads = <<>>
           /\ source_ferries = <<>>
           /\ source_config = <<>>
           /\ dframes = <<>>
           /\ previous_dframes = <<>>
           /\ gpkg = <<>>
    /\ p # "S4" =>
           /\ s4_pc = "off"
           /\ s4_table = <<>>
           /\ s4_before = <<>>
           /\ s4_err = ""
           /\ s4_tables = {}
           /\ s4_ferryseg = 0
           /\ s4_domains = <<>>
    /\ p # "get_url" =>
           /\ url_pc = "off"
           /\ url_attempt = 0
           /\ url_requests = 0
           /\ url_sleeps = 0
           /\ max_attempts = 0
           /\ url_fails = <<>>
    /\ p # "release" =>
           /\ rel_pc = "off"
           /\ rel_numbers = <<>>
           /\ release_year = 0
           /\ now_year = 0
           /\ major_version = "None"
           /\ minor_version = "None"
    /\ p # "incrementor" =>
           /\ counter = <<>>
           /\ inc_args = <<>>
           /\ inc_calls = <<>>
    /\ p # "field_map" =>
           /\ fm_pc = "off"
           /\ field_schema = <<>>
           /\ fm_applied = <<>>
           /\ fm_ignored = <<>>
           /\ fm_err = ""
    /\ p # "validation" =>
           /\ chk_runs = 0
           /\ chk_df = <<>>
           /\ checks = <<>>
           /\ failures = <<>>
           /\ results = <<>>
           /\ chk_returns = <<>>

(***************************************************************************)
(* General helpers                                                         *)
(***************************************************************************)
Range(s) == {s[i] : i \in 1..Len(s)}

SeqsUpTo(S, n) == UNION {[1..k -> S] : k \in 0..n}

RECURSIVE Concat(_)
\* pd.concat / list concatenation of a sequence of sequences
Concat(ss) == IF ss = <<>> THEN <<>> ELSE Head(ss) \o Concat(Tail(ss))

\* the positions of s satisfying Keep, in increasing order (halving keeps the
\* evaluation depth logarithmic in Len(s))
SelectIdx(s, Keep(_)) ==
    LET RECURSIVE SelectRange(_, _)
        SelectRange(lo, hi) ==
            IF lo > hi THEN <<>>
            ELSE IF lo = hi THEN (IF Keep(lo) THEN <<lo>> ELSE <<>>)
            ELSE LET mid == (lo + hi) \div 2
                 IN  SelectRange(lo, mid) \o SelectRange(mid + 1, hi)
    IN  SelectRange(1, Len(s))

(***************************************************************************)
(* Stage 5: KML groups (src/src/stage_5/stage_5.py)                        *)
(*                                                                         *)
(* A placename is a sequence of one-character strings, so that the two     *)
(* sanitisations of define_kml_groups act on characters as the code does.  *)
(***************************************************************************)
kml_limit == 250

\* Number of row blocks a roadseg table of the model is built from.
MaxBlocks == 2

Langs == {"en", "fr"}

DigitChars == <<"0", "1", "2", "3", "4", "5", "6", "7", "8", "9">>

\* Unicode code point of the characters used in the model's placenames.
CharCode(c) ==
    CASE c = " " -> 32 [] c = "'" -> 39 [] c = "." -> 46
      [] c = "0" -> 48 [] c = "1" -> 49 [] c = "2" -> 50 [] c = "3" -> 51
      [] c = "4" -> 52 [] c = "5" -> 53 [] c = "6" -> 54 [] c = "7" -> 55
      [] c = "8" -> 56 [] c = "9" -> 57
      [] c = "A" -> 65 [] c = "B" -> 66 [] c = "O" -> 79 [] c = "_" -> 95

\* A character the regular expression [\W_] matches.
NonWordOrUnderscore(c) == c \in {" ", "'", ".", "_"}

RECURSIVE StrLess(_, _)
\* Python's str ordering (by code point, a proper prefix first)
StrLess(a, b) ==
    IF b = <<>> THEN FALSE
    ELSE IF a = <<>> THEN TRUE
    ELSE IF Head(a) = Head(b) THEN StrLess(Tail(a), Tail(b))
    ELSE CharCode(Head(a)) < CharCode(Head(b))

RECURSIVE Sorted(_)
\* sorted(set of strings)
Sorted(S) ==
    IF S = {} THEN <<>>
    ELSE LET m == CHOOSE x \in S : \A y \in S : x = y \/ StrLess(x, y)
         IN  <<m>> \o Sorted(S \ {m})

RECURSIVE Str(_)
\* str(i) for a natural number i
Str(i) == IF i < 10 THEN <<DigitChars[i + 1]>>
          ELSE Str(i \div 10) \o <<DigitChars[(i % 10) + 1]>>

RECURSIVE SqlSanitize(_)
\* name.replace("'", "''")
SqlSanitize(s) ==
    IF s = <<>> THEN <<>>
    ELSE (IF Head(s) = "'" THEN <<"'", "'">> ELSE <<Head(s)>>) \o SqlSanitize(Tail(s))

RECURSIVE SqlLiteral(_)
\* the string an SQL engine reads from the body of a quoted literal: '' is one quote
SqlLiteral(s) ==
    IF s = <<>> THEN <<>>
    ELSE IF Len(s) >= 2 /\ s[1] = "'" /\ s[2] = "'"
         THEN <<"'">> \o SqlLiteral(SubSeq(s, 3, Len(s)))
         ELSE <<Head(s)>> \o SqlLiteral(Tail(s))

RECURSIVE DropRun(_)
DropRun(s) == IF s # <<>> /\ NonWordOrUnderscore(Head(s)) THEN DropRun(Tail(s)) ELSE s

RECURSIVE ValidName(_)
\* re.sub(r"[\W_]+", "_", name)
ValidName(s) ==
    IF s = <<>> THEN <<>>
    ELSE IF NonWordOrUnderscore(Head(s)) THEN <<"_">> \o ValidName(DropRun(Tail(s)))
         ELSE <<Head(s)>> \o ValidName(Tail(s))

\* Counter(placenames)[name], placenames = l_placenam of every row followed by
\* r_placenam of the rows whose two sides differ
PlacenameCount(df, name) ==
    Cardinality({i \in 1..Len(df) : df[i].l_placenam = name})
  + Cardinality({i \in 1..Len(df) : df[i].l_placenam # df[i].r_placenam
                                     /\ df[i].r_placenam = name})

AllPlacenames(df) ==
    {df[i].l_placenam : i \in 1..Len(df)} \cup {df[i].r_placenam : i \in 1..Len(df)}

\* placenames_exceeded after the sql sanitisation (a set)
PlacenamesExceeded(df) ==
    {SqlSanitize(name) : name \in {n \in AllPlacenames(df) : PlacenameCount(df, n) > kml_limit}}

\* placenames after the sql sanitisation (a sorted series, then mapped)
Placenames(df) ==
    LET small == Sorted({n \in AllPlacenames(df) : PlacenameCount(df, n) <= kml_limit})
    IN  [i \in 1..Len(small) |-> SqlSanitize(small[i])]

\* the export parameters of the placenames within the limit
PlacenamesDf(df) ==
    LET p == Placenames(df)
    IN  [i \in 1..Len(p) |-> [names |-> ValidName(p[i]),
                               queries |-> [kind |-> "where", name |-> p[i]]]]

\* rowids of the rows either side of which equals placename (ROWID = 1..len(df))
RowIds(df, placename) ==
    SelectIdx(df, LAMBDA i : df[i].l_placenam = placename \/ df[i].r_placenam = placename)

\* the sql queries of a limit-exceeding placename: kml_limit-sized chunks of its rowids
SqlQueries(rowids) ==
    LET n == (Len(rowids) + kml_limit - 1) \div kml_limit
    IN  [k \in 1..n |->
            [kind |-> "sql",
             ids  |-> SubSeq(rowids, (k - 1) * kml_limit + 1,
                             IF k * kml_limit < Len(rowids) THEN k * kml_limit
                                                            ELSE Len(rowids))]]

\* the export parameters of one limit-exceeding placename
PlacenamesExceededDf(df, placename) ==
    LET q == SqlQueries(RowIds(df, placename))
    IN  [k \in 1..Len(q) |-> [names |-> ValidName(placename) \o <<"_">> \o Str(k),
                               queries |-> q[k]]]

\* the dataframe define_kml_groups stores for one language
KmlGroupsFor(df) ==
    LET ex == Sorted(PlacenamesExceeded(df))
    IN  PlacenamesDf(df) \o Concat([j \in 1..Len(ex) |-> PlacenamesExceededDf(df, ex[j])])

\* the ROWIDs ogr2ogr selects from the temporary roadseg layer for one query
Selected(df, q) ==
    IF q.kind = "where"
    THEN SelectIdx(df, LAMBDA i : df[i].l_placenam = SqlLiteral(q.name)
                                  \/ df[i].r_placenam = SqlLiteral(q.name))
    ELSE SelectIdx(q.ids, LAMBDA j : q.ids[j] \in 1..Len(df))

\* ogr2ogr -append over the groups in order: a file receives the features of
\* every group whose name it carries
ExportKml(df, groups) ==
    [name \in {groups[g].names : g \in 1..Len(groups)} |->
        Concat([g \in 1..Len(groups) |->
                   IF groups[g].names = name
                   THEN LET q == groups[g].queries
                            s == Selected(df, q)
                        IN  IF q.kind = "where" THEN s
                            ELSE [j \in 1..Len(s) |-> q.ids[s[j]]]
                   ELSE <<>>])]

\* ---- the roadseg tables of the model
nA   == <<"A">>
nA1  == <<"A", "_", "1">>
nAB  == <<"A", " ", "B">>
nA_B == <<"A", "_", "B">>
nOB  == <<"O", "'", "B">>

PlaceNames == {nA, nA1, nAB, nA_B, nOB}

\* A block is n consecutive rows carrying the same pair of placenames.
BlockKinds ==
    {[l |-> nA, r |-> nA, n |-> k] : k \in {1, kml_limit, kml_limit + 1}}
    \cup {[l |-> nAB, r |-> nAB, n |-> k] : k \in {1, kml_limit}}
    \cup {[l |-> nOB, r |-> nOB, n |-> k] : k \in {1, kml_limit + 1}}
    \cup {[l |-> nA1, r |-> nA1, n |-> 1], [l |-> nA_B, r |-> nA_B, n |-> 1],
          [l |-> nA, r |-> nOB, n |-> 1], [l |-> nOB, r |-> nA, n |-> 1],
          [l |-> nAB, r |-> nA_B, n |-> 1]}

ExpandBlocks(bs) ==
    Concat([b \in 1..Len(bs) |->
               [i \in 1..bs[b].n |-> [l_placenam |-> bs[b].l, r_placenam |-> bs[b].r]]])

RoadsegTables == {ExpandBlocks(bs) : bs \in SeqsUpTo(BlockKinds, MaxBlocks) \ {<<>>}}

KmlOff ==
    /\ kml_pc = "off"
    /\ roadseg = <<>>
    /\ kml_groups = <<>>
    /\ kml_files = <<>>

KmlInit ==
    /\ kml_pc = "start"
    /\ roadseg \in RoadsegTables
    /\ kml_groups = <<>>
    /\ kml_files = <<>>

define_kml_groups ==
    /\ kml_pc = "start"
    /\ kml_groups' = [lang \in Langs |-> KmlGroupsFor(roadseg)]
    /\ kml_pc' = "grouped"
    /\ UNCHANGED <<roadseg, kml_files>>
    /\ UNCHANGED <<juncvars, s1vars, auxvars>>

export_data ==
    /\ kml_pc = "grouped"
    /\ kml_files' = [lang \in Langs |-> ExportKml(roadseg, kml_groups[lang])]
    /\ kml_pc' = "exported"
    /\ UNCHANGED <<roadseg, kml_groups>>
    /\ UNCHANGED <<juncvars, s1vars, auxvars>>

KmlNext == define_kml_groups \/ export_data

\* C1: every KML roadseg file written by export_data holds at most kml_limit features.
C1_FilesWithinCap ==
    kml_pc = "exported" =>
        \A lang \in Langs : \A name \in DOMAIN kml_files[lang] :
            Len(kml_files[lang][name]) <= kml_limit

\* the ROWIDs of the rows whose left or right placename is name, in order
RowsOfPlacename(df, name) ==
    SelectIdx(df, LAMBDA i : df[i].l_placenam = name \/ df[i].r_placenam = name)

\* the j-th chunk of kml_limit ROWIDs
Chunk(ids, j) ==
    SubSeq(ids, (j - 1) * kml_limit + 1,
           IF j * kml_limit < Len(ids) THEN j * kml_limit ELSE Len(ids))

\* C20: for a placename carried by n > kml_limit rows on either side, define_kml_groups
\* emits the groups <valid name>_1 .. <valid name>_k, k = ceil(n / kml_limit), whose rows
\* are the consecutive kml_limit-sized chunks of the ROWIDs of those rows, the last one
\* holding the remainder.
C20_ChunksOfLargePlacename ==
    kml_pc \in {"grouped", "exported"} =>
        \A lang \in Langs : \A name \in AllPlacenames(roadseg) :
            Len(RowsOfPlacename(roadseg, name)) > kml_limit =>
                \A j \in 1..((Len(RowsOfPlacename(roadseg, name)) + kml_limit - 1) \div kml_limit) :
                    \E g \in 1..Len(kml_groups[lang]) :
                        /\ kml_groups[lang][g].names = ValidName(name) \o <<"_">> \o Str(j)
                        /\ kml_groups[lang][g].queries =
                               [kind |-> "sql", ids |-> Chunk(RowsOfPlacename(roadseg, name), j)]

\* the rows the export of group g selects from roadseg
RowsOfGroup(df, g) ==
    IF g.queries.kind = "where"
    THEN Range(Selected(df, g.queries))
    ELSE {g.queries.ids[j] : j \in Range(Selected(df, g.queries))}

\* C28: every roadseg row belongs to at least one KML group produced by
\* define_kml_groups.
C28_EveryRowInAGroup ==
    kml_pc \in {"grouped", "exported"} =>
        \A lang \in Langs : \A i \in 1..Len(roadseg) :
            \E g \in 1..Len(kml_groups[lang]) : i \in RowsOfGroup(roadseg, kml_groups[lang][g])

\* C29: the group names produced by define_kml_groups are pairwise distinct.
C29_GroupNamesDistinct ==
    kml_pc \in {"grouped", "exported"} =>
        \A lang \in Langs : \A g, h \in 1..Len(kml_groups[lang]) :
            g # h => kml_groups[lang][g].names # kml_groups[lang][h].names

(***************************************************************************)
(* Junctions (src/geobasenrn/junctions.py)                                 *)
(*                                                                         *)
(* Geometry.  A coordinate is a pair <<x, y>>, a line the sequence of its  *)
(* coordinates.  The lines of the model are drawn along the segments of a  *)
(* planar network (a hub ptC, four rim points, the four spokes and the     *)
(* four rim segments), so two segments meet only at a shared end and the   *)
(* geometric intersection of two lines is decided by the vertices and      *)
(* segments they share.  The roads and ferries of the model are chosen so  *)
(* that a road and a ferry meet in at most one point.                      *)
(* A frame is the sequence of its rows, a row a function from the names of *)
(* its columns (the column wkb, which repeats the geometry, is left out);  *)
(* "NaN" is the value of a row in a column its frame of origin lacks.      *)
(*                                                                         *)
(* Two facts of the inputs reach beyond the rows.  The geometry column of  *)
(* a frame has a name, "geometry" for a frame read from a file, and        *)
(* _get_start_and_end_points only works on a frame that names it "geom".   *)
(* And gpd.overlay takes the keyword keep_geom_type from geopandas 0.8.0   *)
(* on, while setup.py (line 5) asks for geopandas 0.7.0: the installed     *)
(* build decides whether the first overlay call raises.                    *)
(***************************************************************************)
junction_min_point_count == 3

\* Number of roadseg rows / ferryseg rows of the model's inputs.
MaxRoads == 3

MaxFerries == 1

ptC == <<0, 0>>

ptN == <<0, 1>>

ptE == <<1, 0>>

ptS == <<0, -1>>

ptW == <<-1, 0>>

Points == {ptC, ptN, ptE, ptS, ptW}

Segments(line) == {{line[i], line[i + 1]} : i \in 1..(Len(line) - 1)}

Vertices(line) == Range(line)

\* shapely: a.intersection(b), as its geometry type and its isolated points
Intersection(a, b) ==
    LET pts  == Vertices(a) \cap Vertices(b)
        segs == Segments(a) \cap Segments(b)
    IN  [type |-> IF pts = {} THEN "Empty"
                  ELSE IF segs # {} THEN "LineString"
                  ELSE IF Cardinality(pts) = 1 THEN "Point"
                  ELSE "MultiPoint",
         pts  |-> pts]

\* the coordinate of a Point geometry
PointOf(g) == CHOOSE p \in g.pts : TRUE

\* the rows of s at the positions idx
Pick(s, idx) == [x \in 1..Len(idx) |-> s[idx[x]]]

\* drop_duplicates(keep first) of a sequence of values
DropDuplicates(s) == Pick(s, SelectIdx(s, LAMBDA i : \A j \in 1..(i - 1) : s[j] # s[i]))

\* the geometry of pair k of the df1-major enumeration of the rows of df1 and df2
PairIntersection(df1, df2, k) ==
    Intersection(df1[((k - 1) \div Len(df2)) + 1].geometry,
                 df2[((k - 1) % Len(df2)) + 1].geometry)

\* gpd.overlay(df1, df2, how='intersection', keep_geom_type=False): one row per
\* pair (row of df1, row of df2) whose geometries intersect, df1-major
OverlayIntersection(df1, df2) ==
    Pick([k \in 1..(Len(df1) * Len(df2)) |-> PairIntersection(df1, df2, k)],
         SelectIdx([k \in 1..(Len(df1) * Len(df2)) |-> k],
                   LAMBDA k : PairIntersection(df1, df2, k).type # "Empty"))

\* the rows of df1 at no point of df2
OverlayDifference(df1, df2) ==
    Pick(df1, SelectIdx(df1, LAMBDA i : \A j \in 1..Len(df2) : df2[j].geometry # df1[i].geometry))

\* the name of column c of the frame on side 1 or 2 in the merge that ends an overlay:
\* a column of both frames (here junctype) takes the suffix _1 or _2
MergedName(c, side, common) ==
    IF c \notin common THEN c
    ELSE IF c = "junctype" THEN (IF side = 1 THEN "junctype_1" ELSE "junctype_2")
    ELSE c

\* the rows of df, a frame on side 1 or 2, under the columns of the merged frame
MergedRows(df, side, common, columns) ==
    [i \in 1..Len(df) |->
        [c \in columns |->
            IF \E d \in DOMAIN df[i] : MergedName(d, side, common) = c
            THEN df[i][CHOOSE d \in DOMAIN df[i] : MergedName(d, side, common) = c]
            ELSE "NaN"]]

\* gpd.overlay(df1, df2, how='symmetric_difference', keep_geom_type=False) of two
\* frames of points: the rows of df1 at no point of df2, then the rows of df2 at no
\* point of df1, merged with the suffixes _1 and _2 on the columns both frames have
\* but the geometry; an empty frame has no spatial index and the overlay raises
OverlaySymmetricDifference(df1, df2) ==
    IF df1 = <<>> \/ df2 = <<>> THEN [failed |-> TRUE, frame |-> <<>>]
    ELSE [failed |-> FALSE,
          frame |->
              MergedRows(OverlayDifference(df1, df2), 1,
                         (DOMAIN df1[1] \cap DOMAIN df2[1]) \ {"geometry"},
                         {MergedName(d, 1, (DOMAIN df1[1] \cap DOMAIN df2[1]) \ {"geometry"}) :
                              d \in DOMAIN df1[1]}
                         \cup {MergedName(d, 2, (DOMAIN df1[1] \cap DOMAIN df2[1]) \ {"geometry"}) :
                                  d \in DOMAIN df2[1]})
              \o MergedRows(OverlayDifference(df2, df1), 2,
                         (DOMAIN df1[1] \cap DOMAIN df2[1]) \ {"geometry"},
                         {MergedName(d, 1, (DOMAIN df1[1] \cap DOMAIN df2[1]) \ {"geometry"}) :
                              d \in DOMAIN df1[1]}
                         \cup {MergedName(d, 2, (DOMAIN df1[1] \cap DOMAIN df2[1]) \ {"geometry"}) :
                                  d \in DOMAIN df2[1]})]

\* intersection[intersection.geometry.type == 'Point'], as the points' coordinates
PointCoords(inter) ==
    Pick([k \in 1..Len(inter) |-> IF inter[k].type = "Point" THEN PointOf(inter[k]) ELSE <<>>],
         SelectIdx(inter, LAMBDA k : inter[k].type = "Point"))

\* the points met by at least junction_min_point_count rows, each once
IntersectionPoints(wkb) ==
    DropDuplicates(
        Pick(wkb, SelectIdx(wkb, LAMBDA x : Cardinality({y \in 1..Len(wkb) : wkb[y] = wkb[x]})
                                             >= junction_min_point_count)))

\* a frame of points, all of one junction type
TypedPoints(pts, type) == [i \in 1..Len(pts) |-> [geometry |-> pts[i], junctype |-> type]]

get_road_intersections(df) ==
    TypedPoints(IntersectionPoints(PointCoords(OverlayIntersection(df, df))), "Intersection")

\* _get_start_and_end_points: the unique first and last coordinates of the lines. The
\* concatenated series keeps the name of the geometry column of geo_df, so the rename
\* of column 0 at line 47 changes nothing and set_geometry('geom') raises ValueError
\* unless that name is 'geom'
get_start_and_end_points(geo_df, name) ==
    IF name # "geom" THEN [err |-> "ValueError", points |-> <<>>]
    ELSE [err |-> "",
          points |-> DropDuplicates(
              [i \in 1..Len(geo_df) |-> geo_df[i].geometry[1]]
              \o [i \in 1..Len(geo_df) |-> geo_df[i].geometry[Len(geo_df[i].geometry)]])]

\* the ferry junctions of build_junctions (lines 76-84): one row for every road and
\* ferry that touch, typed Ferry, whatever the geometry of the contact: a point where
\* they cross, a line where they share a stretch, several points where they meet more
\* than once
FerryJuncs(roads, ferries) ==
    IF ferries = <<>> THEN <<>>
    ELSE [k \in 1..Len(OverlayIntersection(roads, ferries)) |->
             [geometry |-> IF OverlayIntersection(roads, ferries)[k].type = "Point"
                           THEN PointOf(OverlayIntersection(roads, ferries)[k])
                           ELSE IF OverlayIntersection(roads, ferries)[k].type = "LineString"
                                THEN "a LineString" ELSE "a MultiPoint",
              junctype |-> "Ferry"]]

\* Reclassify with the test reversed: the rows within the boundary are relabelled
ReclassifyWithin(df, poly) ==
    [i \in 1..Len(df) |->
        [c \in DOMAIN df[i] \cup {"junctype"} |->
            IF c # "junctype" THEN df[i][c]
            ELSE IF df[i].geometry \in poly THEN "NatProvTer"
            ELSE IF "junctype" \in DOMAIN df[i] THEN df[i].junctype
            ELSE "NaN"]]

\* dead_ends.loc[~dead_ends.geometry.within(admin_boundary_poly), junctype] = 'NatProvTer':
\* the rows not within the polygon get the type; a frame without the column junctype
\* gets it, empty on the other rows
Reclassify(df, poly) ==
    [i \in 1..Len(df) |->
        [c \in DOMAIN df[i] \cup {"junctype"} |->
            IF c # "junctype" THEN df[i][c]
            ELSE IF df[i].geometry \notin poly THEN "NatProvTer"
            ELSE IF "junctype" \in DOMAIN df[i] THEN df[i].junctype
            ELSE "NaN"]]

\* all_start_end_points concatenated, typed DeadEnd (lines 73, 84, 88-90)
AllStartEndPoints(roads, ferries, names) ==
    TypedPoints(get_start_and_end_points(roads, names.road).points
                \o (IF ferries # <<>> THEN get_start_and_end_points(ferries, names.ferry).points
                    ELSE <<>>),
                "DeadEnd")

\* the dead_ends frame of build_junctions, lines 86-103: all start and end points
\* typed DeadEnd, overlaid with the road junctions rj (the type moves to the column
\* junctype_1) and, with ferries, with the ferry junctions fj, then re-classified at
\* the boundary; raised is the line of the overlay that raised, 0 if none did
DeadEnds(start_end_points, ferries, rj, fj, poly) ==
    IF OverlaySymmetricDifference(start_end_points, rj).failed
    THEN [raised |-> 94, frame |-> <<>>]
    ELSE IF ferries = <<>>
    THEN [raised |-> 0,
          frame |-> Reclassify(OverlaySymmetricDifference(start_end_points, rj).frame, poly)]
    ELSE IF OverlaySymmetricDifference(
                OverlaySymmetricDifference(start_end_points, rj).frame, fj).failed
    THEN [raised |-> 97, frame |-> <<>>]
    ELSE [raised |-> 0,
          frame |-> Reclassify(
                        OverlaySymmetricDifference(
                            OverlaySymmetricDifference(start_end_points, rj).frame, fj).frame,
                        poly)]

\* the edge a line gives with simplify=True: first coordinate to last coordinate
EdgeOf(row) == <<row.geometry[1], row.geometry[Len(row.geometry)]>>

\* get_graph_for_lines(df, simplify=True): a DiGraph with one edge per distinct
\* (first, last) pair; a later row updates the attributes of an edge already there
get_graph_for_lines(df) ==
    [nodes |-> {EdgeOf(df[i])[1] : i \in 1..Len(df)} \cup {EdgeOf(df[i])[2] : i \in 1..Len(df)},
     edges |-> {EdgeOf(df[i]) : i \in 1..Len(df)},
     attrs |-> [e \in {EdgeOf(df[i]) : i \in 1..Len(df)} |->
                   df[CHOOSE i \in 1..Len(df) :
                         /\ EdgeOf(df[i]) = e
                         /\ \A j \in (i + 1)..Len(df) : EdgeOf(df[j]) # e]]]

\* net.degree(node): in-degree plus out-degree, a self-loop counting twice
Degree(net, node) ==
    Cardinality({e \in net.edges : e[1] = node}) + Cardinality({e \in net.edges : e[2] = node})

\* the values of column attr on the edges of net.subgraph(node_id) that carry it: the
\* subgraph induced by the single node node_id holds only a self-loop at node_id
SubnetValues(net, node_id, attr) ==
    {net.attrs[e][attr] : e \in {d \in net.edges : /\ d[1] = node_id /\ d[2] = node_id
                                                   /\ attr \in DOMAIN net.attrs[d]}}

get_attribute_for_node(net, node_id, attr, default) ==
    IF node_id \notin net.nodes THEN default
    ELSE IF SubnetValues(net, node_id, attr) \ {"None"} = {} THEN default
    ELSE CHOOSE v \in SubnetValues(net, node_id, attr) \ {"None"} : TRUE

\* the frame build_junctions returns from its three frames, lines 105-121: the concat
\* has the columns of all of them, and the computed attributes are added
Junctions(all_junctions, net_graph) ==
    [i \in 1..Len(all_junctions) |->
        [geometry   |-> all_junctions[i].geometry,
         junctype   |-> all_junctions[i].junctype,
         junctype_1 |-> IF "junctype_1" \in DOMAIN all_junctions[i]
                        THEN all_junctions[i].junctype_1 ELSE "NaN",
         junctype_2 |-> IF "junctype_2" \in DOMAIN all_junctions[i]
                        THEN all_junctions[i].junctype_2 ELSE "NaN",
         acqtech    |-> "Computed",
         metacover  |-> "Complete",
         specvers   |-> "2.0",
         credate    |-> "today",
         provider   |-> "Federal",
         exitnbr    |-> get_attribute_for_node(net_graph, all_junctions[i].geometry,
                                               "exitnbr", "None"),
         accuracy   |-> get_attribute_for_node(net_graph, all_junctions[i].geometry,
                                               "accuracy", "None")]]

\* schema.domains['junction_type']['en']: the labels of the junction types
junction_type == {"Intersection", "Dead End", "Ferry", "NatProvTer"}

\* ---- the inputs of the model
Road(line) == [geometry |-> line, exitnbr |-> "None", accuracy |-> "10"]

\* the roads of the model; road_df holds some of them, in this order
RoadRows ==
    <<Road(<<ptC, ptN>>), Road(<<ptN, ptE>>),
      [geometry |-> <<ptW, ptN>>, exitnbr |-> "12", accuracy |-> "None"],
      Road(<<ptS, ptC>>), Road(<<ptN, ptC, ptS>>), Road(<<ptN, ptW, ptC>>)>>

FerryRows ==
    {[geometry |-> <<ptW, ptC>>], [geometry |-> <<ptW, ptC, ptE>>], [geometry |-> <<ptC, ptS>>]}

JuncOff ==
    /\ junc_pc = "off"
    /\ junc_raised = 0
    /\ geopandas_keep_geom_type = FALSE
    /\ geometry_name = <<>>
    /\ road_df = <<>>
    /\ ferry_df = <<>>
    /\ admin_boundary_poly = {}
    /\ road_juncs = <<>>
    /\ ferry_juncs = <<>>
    /\ dead_ends = <<>>
    /\ junctions = <<>>

\* build_junctions is called with frames that name their geometry column "geom" or
\* "geometry", under a geopandas whose overlay takes keep_geom_type or not. Where the
\* call gets to the overlay of line 97, a road and a ferry of the frames meet in at
\* most one point: what that overlay makes of a frame that holds lines next to points
\* is decided inside geopandas and is not followed here
JuncInit ==
    /\ junc_pc = "input"
    /\ junc_raised = 0
    /\ \E env \in {<<TRUE,  [road |-> "geom", ferry |-> "geom"]>>,
                    <<TRUE,  [road |-> "geometry", ferry |-> "geom"]>>,
                    <<TRUE,  [road |-> "geom", ferry |-> "geometry"]>>,
                    <<FALSE, [road |-> "geometry", ferry |-> "geometry"]>>} :
          /\ geopandas_keep_geom_type = env[1]
          /\ geometry_name = env[2]
    /\ road_df \in {Pick(RoadRows, idx) :
                        idx \in {s \in SeqsUpTo(1..Len(RoadRows), MaxRoads) \ {<<>>} :
                                    \A i \in 1..(Len(s) - 1) : s[i] < s[i + 1]}}
    /\ ferry_df \in SeqsUpTo(FerryRows, MaxFerries)
    /\ (/\ geopandas_keep_geom_type
        /\ geometry_name = [road |-> "geom", ferry |-> "geom"]
        /\ get_road_intersections(road_df) # <<>>)
       => \A i \in 1..Len(road_df), j \in 1..Len(ferry_df) :
              Intersection(road_df[i].geometry, ferry_df[j].geometry).type
                  \in {"Empty", "Point"}
    /\ admin_boundary_poly \in {Points, Points \ {ptN}, {ptC, ptS, ptW}}
    /\ road_juncs = <<>>
    /\ ferry_juncs = <<>>
    /\ dead_ends = <<>>
    /\ junctions = <<>>

\* build_junctions, lines 58-121, with get_road_intersections (line 70, whose overlay
\* at line 126 is the first to pass keep_geom_type) and _get_start_and_end_points
\* (lines 73 and 84)
build_junctions ==
    /\ junc_pc = "input"
    /\ \E rj \in {get_road_intersections(road_df)}, fj \in {FerryJuncs(road_df, ferry_df)} :
          IF ~geopandas_keep_geom_type
          THEN /\ junc_raised' = 126
               /\ junc_pc' = "raised"
               /\ UNCHANGED <<road_juncs, ferry_juncs, dead_ends, junctions>>
          ELSE IF \/ get_start_and_end_points(road_df, geometry_name.road).err # ""
                  \/ /\ ferry_df # <<>>
                     /\ get_start_and_end_points(ferry_df, geometry_name.ferry).err # ""
          THEN /\ junc_raised' = 47
               /\ junc_pc' = "raised"
               /\ UNCHANGED <<road_juncs, ferry_juncs, dead_ends, junctions>>
          ELSE \E de \in {DeadEnds(AllStartEndPoints(road_df, ferry_df, geometry_name),
                                    ferry_df, rj, fj, admin_boundary_poly)} :
                  IF de.raised # 0
                  THEN /\ junc_raised' = de.raised
                       /\ junc_pc' = "raised"
                       /\ UNCHANGED <<road_juncs, ferry_juncs, dead_ends, junctions>>
                  ELSE /\ road_juncs' = rj
                       /\ ferry_juncs' = fj
                       /\ dead_ends' = de.frame
                       /\ junctions' = Junctions(rj \o fj \o de.frame,
                                                 get_graph_for_lines(road_df))
                       /\ junc_raised' = 0
                       /\ junc_pc' = "built"
    /\ UNCHANGED <<geopandas_keep_geom_type, geometry_name, road_df, ferry_df, admin_boundary_poly>>
    /\ UNCHANGED <<kmlvars, s1vars, auxvars>>

\* The roads and ferries of a call that returns meet in at most one point.
FerryContactsArePoints ==
    junc_pc = "built"
        => \A i \in 1..Len(road_df), j \in 1..Len(ferry_df) :
               Intersection(road_df[i].geometry, ferry_df[j].geometry).type
                   \in {"Empty", "Point"}

(***************************************************************************)
(* Claims on build_junctions                                               *)
(***************************************************************************)
\* the first and last coordinates of the lines of a frame
EndpointsOf(df) ==
    {df[i].geometry[1] : i \in 1..Len(df)} \cup {df[i].geometry[Len(df[i].geometry)] : i \in 1..Len(df)}

\* the junction types emitted at a coordinate
TypesAt(p) == {junctions[i].junctype : i \in {j \in 1..Len(junctions) : junctions[j].geometry = p}}

\* C2: with no ferry, a road-graph node within the boundary yields an Intersection
\* junction when its degree is >= 3, a DeadEnd junction when its degree is 1, and no
\* junction when its degree is 2.
C2_DegreeClassification ==
    (junc_pc = "built" /\ ferry_df = <<>>) =>
        \A n \in get_graph_for_lines(road_df).nodes \cap admin_boundary_poly :
            /\ Degree(get_graph_for_lines(road_df), n) >= 3 => "Intersection" \in TypesAt(n)
            /\ Degree(get_graph_for_lines(road_df), n) = 1 => "DeadEnd" \in TypesAt(n)
            /\ Degree(get_graph_for_lines(road_df), n) = 2 => TypesAt(n) = {}

\* C3: no two rows of the junctions frame have the same coordinates.
C3_OneJunctionPerCoordinate ==
    junc_pc = "built" =>
        \A i, j \in 1..Len(junctions) : i # j => junctions[i].geometry # junctions[j].geometry

\* C4: with ferries, every ferry node (within the boundary) has junctions, and all of
\* them are typed Ferry, whether or not the node is also a road node.
C4_FerryNodesAreFerry ==
    (junc_pc = "built" /\ ferry_df # <<>>) =>
        \A p \in EndpointsOf(ferry_df) \cap admin_boundary_poly : TypesAt(p) = {"Ferry"}

\* C5 (as claimed): every junction not within the boundary is typed NatProvTer.
C5_OutsideIsNatProvTer ==
    junc_pc = "built" =>
        \A i \in 1..Len(junctions) :
            junctions[i].geometry \notin admin_boundary_poly => junctions[i].junctype = "NatProvTer"

\* C5 (amended): the returned frame is the road intersections, then the ferry
\* contacts, then the dead-end frame; every row of the dead-end part not within the
\* boundary is typed NatProvTer, and the rows of the other two parts keep the type
\* Intersection and Ferry wherever they lie.
C5_DeadEndsOutsideAreNatProvTer ==
    junc_pc = "built" =>
        /\ Len(junctions) = Len(road_juncs) + Len(ferry_juncs) + Len(dead_ends)
        /\ \A i \in 1..Len(road_juncs) : junctions[i].junctype = "Intersection"
        /\ \A i \in 1..Len(ferry_juncs) : junctions[Len(road_juncs) + i].junctype = "Ferry"
        /\ \A i \in 1..Len(dead_ends) :
              /\ junctions[Len(road_juncs) + Len(ferry_juncs) + i].geometry = dead_ends[i].geometry
              /\ dead_ends[i].geometry \notin admin_boundary_poly
                    => junctions[Len(road_juncs) + Len(ferry_juncs) + i].junctype = "NatProvTer"

\* C5 witness: a dead-end outside the boundary was relabelled while a road
\* intersection outside the boundary kept its type.
C5_Witness ==
    /\ junc_pc = "built"
    /\ \E i \in 1..Len(dead_ends) :
          dead_ends[i].geometry \notin admin_boundary_poly /\ dead_ends[i].junctype = "NatProvTer"
    /\ \E i \in 1..Len(road_juncs) : road_juncs[i].geometry \notin admin_boundary_poly

\* C6: every junction lies on the first or last coordinate of a road or ferry line.
C6_JunctionsAtEndpoints ==
    junc_pc = "built" =>
        \A i \in 1..Len(junctions) :
            junctions[i].geometry \in EndpointsOf(road_df) \cup EndpointsOf(ferry_df)

\* the values of column attr, other than 'None', on the roads that start or end at p
IncidentValues(p, attr) ==
    {road_df[i][attr] : i \in {j \in 1..Len(road_df) : p \in {EdgeOf(road_df[j])[1],
                                                              EdgeOf(road_df[j])[2]}}} \ {"None"}

\* C21: the exitnbr and the accuracy of a junction are a value, other than 'None', of a
\* road that starts or ends at the junction; without such a value exitnbr is 'None' and
\* accuracy is -1.
C21_AttributesFromIncidentRoads ==
    junc_pc = "built" =>
        \A i \in 1..Len(junctions) :
            /\ junctions[i].exitnbr \in
                   (IF IncidentValues(junctions[i].geometry, "exitnbr") = {} THEN {"None"}
                    ELSE IncidentValues(junctions[i].geometry, "exitnbr"))
            /\ junctions[i].accuracy \in
                   (IF IncidentValues(junctions[i].geometry, "accuracy") = {} THEN {"-1"}
                    ELSE IncidentValues(junctions[i].geometry, "accuracy"))

\* C22: every junctype of a junction is a label of the junction_type domain.
C22_JunctypeInDomain ==
    junc_pc = "built" =>
        \A i \in 1..Len(junctions) : junctions[i].junctype \in junction_type

(***************************************************************************)
(* Stage 1 (src/src/stage_1/stage_1.py): split_strplaname,                 *)
(* recover_missing_datasets, apply_domains, clean_datasets and             *)
(* filter_and_relink_strplaname, on the tables strplaname, addrange and    *)
(* altnamlink.                                                             *)
(*                                                                         *)
(* Identifiers (uuid, nid and the nid references) are integers: uuid4(k)   *)
(* is the k-th value drawn from uuid.uuid4().hex, 100 + v is the upper     *)
(* case spelling of the identifier v, DefaultNid is the default value of   *)
(* an identifier field and NaN the missing value of an unmapped field.     *)
(* A cell of a strplaname name column is a sequence: <<v>> is the scalar   *)
(* v, <<l, r>> the packed pair [l, r].                                     *)
(***************************************************************************)
MaxStrplaname == 2

MaxAddrange == 1

MaxAltnamlink == 1

\* self.defaults[table][field] of an identifier field
DefaultNid == 0

\* the value of a target field no mapping has filled (pd.Series(dtype=dtype))
NaN == -1

\* uuid.uuid4().hex, the k-th draw of the run
uuid4(k) == 10 + k

\* str.lower on an identifier
lower(v) == IF v > 100 THEN v - 100 ELSE v

\* re.sub(r" +", " ", str(val.strip())) on the names of the model
strip_whitespace(val) == IF val = " Main" THEN "Main" ELSE val

\* datetime.today().strftime("%Y%m%d")
today == "20261029"

\* self.defaults["altnamlink"]["revdate"]
DefaultRevdate == "0"

\* df.columns.difference(["uuid", "nid"]) of strplaname
match_fields == <<"namebody", "placename">>

\* ---- the inputs of the model
\* nid of source row i of strplaname: the first one is spelled in upper case; the
\* second one is another identifier or (twin) the first one spelled in lower case
SourceNid(i, twin) == IF i = 1 THEN 100 + i ELSE IF i = 2 /\ twin THEN 1 ELSE i

NameCells(col, packed) ==
    IF col = "namebody"
    THEN (IF packed THEN {<<"Main", "First">>, <<"Main", " Main">>, <<"Main", "Main">>}
                    ELSE {<<"Main">>, <<" Main">>, <<"First">>})
    ELSE (IF packed THEN {<<"Town", "City">>} ELSE {<<"Town">>})

StrplanameRows(n, nb, pn, twin) ==
    [i \in 1..n |-> [uuid |-> uuid4(i), nid |-> SourceNid(i, twin),
                     namebody |-> nb[i], placename |-> pn[i]]]

StrplanameTables ==
    UNION {{StrplanameRows(n, nb, pn, twin) :
               nb \in [1..n -> NameCells("namebody", f[1])],
               pn \in [1..n -> NameCells("placename", f[2])],
               twin \in (IF n >= 2 THEN BOOLEAN ELSE {FALSE})} :
           n \in 1..MaxStrplaname, f \in BOOLEAN \X BOOLEAN}

AddrangeRows(l, r) ==
    [i \in 1..Len(l) |-> [uuid |-> uuid4(MaxStrplaname + i),
                          nid |-> uuid4(MaxStrplaname + MaxAddrange + i),
                          l_offnanid |-> l[i], r_offnanid |-> r[i]]]

\* addrange of the previous vintage: one reference to a strplaname row of that
\* vintage, one default
OldAddrange ==
    <<[uuid |-> 90, nid |-> 91, l_offnanid |-> 92, r_offnanid |-> DefaultNid]>>

\* addrange as mapped from the source (present), or missing from the source with or
\* without a table in the previous vintage
AddrangeInputs(sp) ==
    UNION {{[present |-> TRUE, rows |-> AddrangeRows(l, r), old |-> <<>>] :
               l \in [1..n -> {sp[Len(sp)].nid, DefaultNid}],
               r \in [1..n -> {sp[1].nid, sp[Len(sp)].nid, DefaultNid, NaN}]} :
           n \in 0..MaxAddrange}
    \cup {[present |-> FALSE, rows |-> <<>>, old |-> o] : o \in {<<>>, OldAddrange}}

AltnamlinkRows(s) ==
    [i \in 1..Len(s) |-> [uuid |-> uuid4(MaxStrplaname + 2 * MaxAddrange + i),
                          nid |-> uuid4(MaxStrplaname + 2 * MaxAddrange + MaxAltnamlink + i),
                          strnamenid |-> s[i], credate |-> "20200101",
                          revdate |-> DefaultRevdate]]

OldAltnamlink ==
    <<[uuid |-> 93, nid |-> 94, strnamenid |-> 92, credate |-> "20190101",
       revdate |-> DefaultRevdate]>>

AltnamlinkInputs(sp) ==
    UNION {{[present |-> TRUE, rows |-> AltnamlinkRows(s), old |-> <<>>] :
               s \in [1..n -> {sp[Len(sp)].nid, DefaultNid}]} :
           n \in 0..MaxAltnamlink}
    \cup {[present |-> FALSE, rows |-> <<>>, old |-> o] : o \in {<<>>, OldAltnamlink}}

\* the uuid4 values drawn while the source tables were loaded and mapped
SourceUuids == MaxStrplaname + 2 * MaxAddrange + 2 * MaxAltnamlink

S1Off ==
    /\ s1_pc = "off"
    /\ s1_err = ""
    /\ target_gdframes = {}
    /\ domains = {}
    /\ strplaname = <<>>
    /\ addrange = <<>>
    /\ altnamlink = <<>>
    /\ dframes_old = [addrange |-> <<>>, altnamlink |-> <<>>]
    /\ uuid_count = 0
    /\ split_in = [strplaname |-> <<>>, addrange |-> <<>>]
    /\ split_lookup = <<>>
    /\ filter_in = [strplaname |-> <<>>, addrange |-> <<>>, altnamlink |-> <<>>]
    /\ filter_lookup = <<>>

\* the tables of the distribution format that the model follows; roadseg and
\* ferryseg are followed by name only: when mapped they hold rows, which no step of
\* this part reads
Tables == {"strplaname", "addrange", "altnamlink", "roadseg", "ferryseg"}

\* the state after apply_field_mapping: the source maps no line table, roadseg, or
\* roadseg and ferryseg; self.domains, compiled from the schema definition, has an
\* entry for every table, or lacks the entry of addrange
S1Init ==
    \E sp \in StrplanameTables :
        \E a \in AddrangeInputs(sp), l \in AltnamlinkInputs(sp) :
            /\ s1_pc = "split_strplaname"
            /\ s1_err = ""
            /\ \E seg \in {{}, {"roadseg"}, {"roadseg", "ferryseg"}} :
                  target_gdframes = {"strplaname"}
                                    \cup (IF a.present THEN {"addrange"} ELSE {})
                                    \cup (IF l.present THEN {"altnamlink"} ELSE {})
                                    \cup seg
            /\ domains \in {Tables, Tables \ {"addrange"}}
            /\ strplaname = sp
            /\ addrange = a.rows
            /\ altnamlink = l.rows
            /\ dframes_old = [addrange |-> a.old, altnamlink |-> l.old]
            /\ uuid_count = SourceUuids
            /\ split_in = [strplaname |-> <<>>, addrange |-> <<>>]
            /\ split_lookup = <<>>
            /\ filter_in = [strplaname |-> <<>>, addrange |-> <<>>, altnamlink |-> <<>>]
            /\ filter_lookup = <<>>

\* ---- dictionaries: a dict is the sequence of its <<key, value>> insertions
HasKey(d, k) == \E i \in 1..Len(d) : d[i][1] = k

\* the mapped series keeps its keys
KeepKey(d, k) == k

\* d[k]: the value of the last insertion of key k
DictGet(d, k) ==
    d[CHOOSE i \in 1..Len(d) : d[i][1] = k /\ \A j \in (i + 1)..Len(d) : d[j][1] # k][2]

\* series.map(lambda val: itemgetter(val)(nid_lookup)) raises KeyError unless every
\* value of the series is a key
FieldOk(rows, field, d) == \A i \in 1..Len(rows) : HasKey(d, rows[i][field])

MapField(rows, field, d) ==
    [i \in 1..Len(rows) |-> [rows[i] EXCEPT ![field] = DictGet(d, @)]]

RECURSIVE RepairLinkages(_, _, _)
\* "for field in linkages[table]": the fields of one table in turn; the first
\* field holding a value that is no key of the lookup ends the run
RepairLinkages(rows, fields, d) ==
    IF fields = <<>> THEN [rows |-> rows, err |-> ""]
    ELSE IF ~FieldOk(rows, Head(fields), d) THEN [rows |-> rows, err |-> "KeyError"]
    ELSE RepairLinkages(MapField(rows, Head(fields), d), Tail(fields), d)

\* ---- split_strplaname
\* the columns whose value in the first row is a list
NestedCols(df) == {c \in Range(match_fields) : Len(df[1][c]) = 2}

\* df[col].map(itemgetter(k - 1)) on every nested column
SplitSide(row, cols, k) ==
    [row EXCEPT !.namebody = IF "namebody" \in cols THEN <<@[k]>> ELSE @,
                !.placename = IF "placename" \in cols THEN <<@[k]>> ELSE @]

SplitLeft(df, cols) == [i \in 1..Len(df) |-> SplitSide(df[i], cols, 1)]

\* a right side that keeps the identifiers of the source row
SplitRightKeepIds(df, cols, count) == [i \in 1..Len(df) |-> SplitSide(df[i], cols, 2)]

\* df_r: second elements, new nids, then new uuids
SplitRight(df, cols, count) ==
    [i \in 1..Len(df) |-> [SplitSide(df[i], cols, 2) EXCEPT !.nid = uuid4(count + i),
                                                          !.uuid = uuid4(count + Len(df) + i)]]

\* pd.concat([df_l, df_r])
SplitStrplaname(df, cols, count) == SplitLeft(df, cols) \o SplitRight(df, cols, count)

\* nid_lookup = dict(zip(df_l["nid"], df_r["nid"]))
SplitLookup(df, cols, count) ==
    [i \in 1..Len(df) |-> <<SplitLeft(df, cols)[i].nid, SplitRight(df, cols, count)[i].nid>>]

\* linkages = {"addrange": ["r_offnanid"]}
SplitAddrange(present, rows, d) ==
    IF present THEN RepairLinkages(rows, <<"r_offnanid">>, d)
    ELSE [rows |-> rows, err |-> ""]

\* "Update altnamlink": itemgetter(nid_lookup)(val) indexes the string val with the
\* dictionary, a TypeError on the first row
SplitAltnamlinkErr(present, rows) == IF present /\ Len(rows) > 0 THEN "TypeError" ELSE ""

SplitErr(tables, adr, alt, d) ==
    IF SplitAddrange("addrange" \in tables, adr, d).err # ""
    THEN SplitAddrange("addrange" \in tables, adr, d).err
    ELSE SplitAltnamlinkErr("altnamlink" \in tables, alt)

\* uuid4 draws of split_strplaname: nid and uuid of df_r, then strnamenid and uuid
\* of the second altnamlink copy when the run gets there
SplitDraws(tables, sp, adr, alt, d) ==
    2 * Len(sp)
    + (IF "altnamlink" \in tables /\ SplitAddrange("addrange" \in tables, adr, d).err = ""
       THEN 2 * Len(alt) ELSE 0)

split_strplaname ==
    /\ s1_pc = "split_strplaname"
    /\ split_in' = [strplaname |-> strplaname, addrange |-> addrange]
    /\ IF NestedCols(strplaname) = {}
       THEN /\ split_lookup' = <<>>
            /\ s1_err' = ""
            /\ UNCHANGED <<strplaname, addrange, uuid_count>>
       ELSE /\ strplaname' = SplitStrplaname(strplaname, NestedCols(strplaname), uuid_count)
            /\ split_lookup' = SplitLookup(strplaname, NestedCols(strplaname), uuid_count)
            /\ addrange' = SplitAddrange("addrange" \in target_gdframes, addrange,
                                         split_lookup').rows
            /\ s1_err' = SplitErr(target_gdframes, addrange, altnamlink, split_lookup')
            /\ uuid_count' = uuid_count + SplitDraws(target_gdframes, strplaname, addrange,
                                                     altnamlink, split_lookup')
    /\ s1_pc' = IF s1_err' = "" THEN "recover_missing_datasets" ELSE "exit"
    /\ UNCHANGED <<altnamlink, target_gdframes, domains, dframes_old, filter_in,
                   filter_lookup>>
    /\ UNCHANGED <<kmlvars, juncvars, auxvars>>

\* ---- recover_missing_datasets
\* the modelled tables of target_attributes that target_gdframes lacks and the
\* previous vintage holds with at least one row
Recoverable(tables, old) ==
    {t \in {"addrange", "altnamlink"} \ tables : Len(old[t]) > 0}

\* a recoverable table is copied and given new uuids (line 642); the copy then
\* has its geometry column rounded (lines 645-646). addrange and altnamlink are
\* attribute tables, without a geometry column: df["geometry"] raises KeyError
\* before the copy is stored at line 649, for the first recoverable table in the
\* order of self.target_attributes
recover_missing_datasets ==
    /\ s1_pc = "recover_missing_datasets"
    /\ IF Recoverable(target_gdframes, dframes_old) = {}
       THEN /\ s1_pc' = "apply_domains"
            /\ UNCHANGED <<s1_err, uuid_count>>
       ELSE /\ \E table \in Recoverable(target_gdframes, dframes_old) :
                  uuid_count' = uuid_count + Len(dframes_old[table])
            /\ s1_err' = "KeyError"
            /\ s1_pc' = "exit"
    /\ UNCHANGED <<target_gdframes, domains, strplaname, addrange, altnamlink, dframes_old,
                   split_in, split_lookup, filter_in, filter_lookup>>
    /\ UNCHANGED <<kmlvars, juncvars, auxvars>>

\* ---- apply_domains
\* apply_domain with no domain: the value is preserved unless it is missing
apply_domain(val, default) == IF val = NaN THEN default ELSE val

ApplyDomainField(rows, field) ==
    [i \in 1..Len(rows) |-> [rows[i] EXCEPT ![field] = apply_domain(@, DefaultNid)]]

\* "for table in self.target_gdframes": a table without an entry in self.domains
\* raises KeyError at line 73, which is caught, logged as an invalid schema
\* definition and turned into sys.exit(1) (lines 104-106); the tables taken before
\* it, in the insertion order of the dictionary, keep their new columns
apply_domains ==
    /\ s1_pc = "apply_domains"
    /\ IF target_gdframes \subseteq domains
       THEN /\ addrange' = ApplyDomainField(ApplyDomainField(addrange, "l_offnanid"),
                                            "r_offnanid")
            /\ altnamlink' = ApplyDomainField(altnamlink, "strnamenid")
            /\ s1_pc' = "clean_datasets"
            /\ UNCHANGED s1_err
       ELSE /\ \E before \in BOOLEAN :
                  altnamlink' = IF before
                                THEN ApplyDomainField(altnamlink, "strnamenid")
                                ELSE altnamlink
            /\ s1_err' = "SystemExit"
            /\ s1_pc' = "exit"
            /\ UNCHANGED addrange
    /\ UNCHANGED <<target_gdframes, domains, strplaname, dframes_old, uuid_count,
                   split_in, split_lookup, filter_in, filter_lookup>>
    /\ UNCHANGED <<kmlvars, juncvars, auxvars>>

\* ---- clean_datasets
\* every column ending in "id" other than uuid (cols): non-default values to lower
\* case. On a table without rows the mask of line 252 is an empty Series of dtype
\* object, which pandas 0.25 takes for a list of column labels; df[mask] then has no
\* column and [col] raises KeyError. The columns are those of dtype str (line 248),
\* which after apply_domains hold strings only.
lower_case_ids(rows, cols) ==
    IF rows = <<>> /\ cols # <<>>
    THEN [rows |-> rows, err |-> "KeyError"]
    ELSE [rows |-> [i \in 1..Len(rows) |->
                       [c \in DOMAIN rows[i] |->
                           IF c \in Range(cols) /\ rows[i][c] # DefaultNid
                           THEN lower(rows[i][c]) ELSE rows[i][c]]],
          err  |-> ""]

StripCell(cell) == [k \in 1..Len(cell) |-> strip_whitespace(cell[k])]

StripNames(rows) ==
    [i \in 1..Len(rows) |-> [rows[i] EXCEPT !.namebody = StripCell(@),
                                           !.placename = StripCell(@)]]

\* lower_case_ids runs over every table (lines 326-327), in the order of the
\* dictionary: on a table without rows it raises KeyError (line 252), the tables taken
\* before that one (done) are in lower case and nothing else has run;
\* overwrite_roadsegid then reads self.target_gdframes["roadseg"] (line 330), a
\* KeyError without that table; strip_whitespace runs over every table (lines
\* 334-335); the title case loop then reads self.target_gdframes["ferryseg"] (line
\* 339), a KeyError without that table
clean_datasets ==
    /\ s1_pc = "clean_datasets"
    /\ IF \/ lower_case_ids(strplaname, <<"nid">>).err # ""
          \/ /\ "addrange" \in target_gdframes
             /\ lower_case_ids(addrange, <<"l_offnanid", "nid", "r_offnanid">>).err # ""
          \/ /\ "altnamlink" \in target_gdframes
             /\ lower_case_ids(altnamlink, <<"nid", "strnamenid">>).err # ""
       THEN /\ \E done \in SUBSET {"strplaname", "addrange", "altnamlink"} :
                  /\ strplaname' = IF "strplaname" \in done /\ strplaname # <<>>
                                   THEN lower_case_ids(strplaname, <<"nid">>).rows
                                   ELSE strplaname
                  /\ addrange' = IF "addrange" \in done /\ addrange # <<>>
                                 THEN lower_case_ids(addrange, <<"l_offnanid", "nid",
                                                                 "r_offnanid">>).rows
                                 ELSE addrange
                  /\ altnamlink' = IF "altnamlink" \in done /\ altnamlink # <<>>
                                   THEN lower_case_ids(altnamlink,
                                                       <<"nid", "strnamenid">>).rows
                                   ELSE altnamlink
            /\ s1_err' = "KeyError"
       ELSE /\ strplaname' = IF "roadseg" \in target_gdframes
                             THEN StripNames(lower_case_ids(strplaname, <<"nid">>).rows)
                             ELSE lower_case_ids(strplaname, <<"nid">>).rows
            /\ addrange' = IF "addrange" \in target_gdframes
                           THEN lower_case_ids(addrange, <<"l_offnanid", "nid",
                                                           "r_offnanid">>).rows
                           ELSE addrange
            /\ altnamlink' = IF "altnamlink" \in target_gdframes
                             THEN lower_case_ids(altnamlink, <<"nid", "strnamenid">>).rows
                             ELSE altnamlink
            /\ s1_err' = IF {"roadseg", "ferryseg"} \subseteq target_gdframes
                         THEN "" ELSE "KeyError"
    /\ s1_pc' = IF s1_err' = "" THEN "filter_and_relink_strplaname" ELSE "exit"
    /\ UNCHANGED <<target_gdframes, domains, dframes_old, uuid_count,
                   split_in, split_lookup, filter_in, filter_lookup>>
    /\ UNCHANGED <<kmlvars, juncvars, auxvars>>

\* ---- filter_and_relink_strplaname
\* the values of the match fields of a row
MatchKey(row) == [k \in 1..Len(match_fields) |-> row[match_fields[k]]]

\* keep="last": the last row of the group of row i
LastOfGroup(df, i) ==
    CHOOSE j \in i..Len(df) :
        /\ MatchKey(df[j]) = MatchKey(df[i])
        /\ \A k \in (j + 1)..Len(df) : MatchKey(df[k]) # MatchKey(df[i])

\* keep="first": the first row of the group of row i
FirstOfGroup(df, i) ==
    CHOOSE j \in 1..i :
        /\ MatchKey(df[j]) = MatchKey(df[i])
        /\ \A k \in 1..(j - 1) : MatchKey(df[k]) # MatchKey(df[i])

\* df.drop_duplicates(subset=match_fields, keep="first")
drop_duplicates(df) == Pick(df, SelectIdx(df, LAMBDA i : FirstOfGroup(df, i) = i))

\* the nids of the rows of the group that starts at row j, in row order
GroupNids(df, j) ==
    [x \in 1..Len(SelectIdx(df, LAMBDA i : FirstOfGroup(df, i) = j)) |->
        df[SelectIdx(df, LAMBDA i : FirstOfGroup(df, i) = j)[x]].nid]

\* helpers.groupby_to_list(df, match_fields, "nid"): one list of nids per group
groupby_to_list(df) ==
    [g \in 1..Len(drop_duplicates(df)) |->
        GroupNids(df, SelectIdx(df, LAMBDA i : FirstOfGroup(df, i) = i)[g])]

\* index = first nid of each list, explode, dict(zip(values, index))
FilterLookup(groups) ==
    Concat([g \in 1..Len(groups) |->
               [k \in 1..Len(groups[g]) |-> <<groups[g][k], groups[g][1]>>]])

\* linkages = {"addrange": ["l_offnanid", "r_offnanid"], "altnamlink": ["strnamenid"]}
FilterAddrange(rows, d) == RepairLinkages(rows, <<"l_offnanid", "r_offnanid">>, d)

FilterAltnamlink(rows, d) == RepairLinkages(rows, <<"strnamenid">>, d)

\* the linked tables are taken in the iteration order of a set of strings; the run
\* ends at the first KeyError, and the fields written before it stay written
FilterRelink(first, adr, alt, d) ==
    IF first = "addrange"
    THEN IF FilterAddrange(adr, d).err # ""
         THEN [addrange |-> FilterAddrange(adr, d).rows, altnamlink |-> alt,
               err |-> FilterAddrange(adr, d).err]
         ELSE [addrange |-> FilterAddrange(adr, d).rows,
               altnamlink |-> FilterAltnamlink(alt, d).rows,
               err |-> FilterAltnamlink(alt, d).err]
    ELSE IF FilterAltnamlink(alt, d).err # ""
         THEN [addrange |-> adr, altnamlink |-> alt, err |-> FilterAltnamlink(alt, d).err]
         ELSE [addrange |-> FilterAddrange(adr, d).rows,
               altnamlink |-> FilterAltnamlink(alt, d).rows,
               err |-> FilterAddrange(adr, d).err]

filter_and_relink_strplaname ==
    /\ s1_pc = "filter_and_relink_strplaname"
    /\ filter_in' = [strplaname |-> strplaname, addrange |-> addrange,
                     altnamlink |-> altnamlink]
    /\ IF Len(strplaname) = Len(drop_duplicates(strplaname))
       THEN /\ filter_lookup' = <<>>
            /\ s1_err' = ""
            /\ UNCHANGED <<strplaname, addrange, altnamlink>>
       ELSE /\ strplaname' = drop_duplicates(strplaname)
            /\ filter_lookup' = FilterLookup(groupby_to_list(strplaname))
            /\ \E first \in {"addrange", "altnamlink"} :
                  /\ addrange' = FilterRelink(first, addrange, altnamlink,
                                              filter_lookup').addrange
                  /\ altnamlink' = FilterRelink(first, addrange, altnamlink,
                                                filter_lookup').altnamlink
                  /\ s1_err' = FilterRelink(first, addrange, altnamlink,
                                            filter_lookup').err
    /\ s1_pc' = IF s1_err' = "" THEN "export_gpkg" ELSE "exit"
    /\ UNCHANGED <<target_gdframes, domains, dframes_old, uuid_count, split_in,
                   split_lookup>>
    /\ UNCHANGED <<kmlvars, juncvars, auxvars>>

S1Next ==
    \/ split_strplaname
    \/ recover_missing_datasets
    \/ apply_domains
    \/ clean_datasets
    \/ filter_and_relink_strplaname

(***************************************************************************)
(* Claims on stage 1                                                       *)
(***************************************************************************)
\* split_strplaname has run to its end on a strplaname holding packed columns
SplitDone == s1_pc = "recover_missing_datasets" /\ NestedCols(split_in.strplaname) # {}

\* row is the copy of source row src that holds element k of every packed column
IsSideOf(row, src, cols, k) ==
    \A c \in Range(match_fields) :
        row[c] = IF c \in cols THEN <<src[c][k]>> ELSE src[c]

\* every strplaname row has become a left copy followed, Len rows later, by a right copy
SplitInTwo ==
    /\ Len(strplaname) = 2 * Len(split_in.strplaname)
    /\ \A i \in 1..Len(split_in.strplaname) :
          /\ IsSideOf(strplaname[i], split_in.strplaname[i],
                      NestedCols(split_in.strplaname), 1)
          /\ IsSideOf(strplaname[Len(split_in.strplaname) + i], split_in.strplaname[i],
                      NestedCols(split_in.strplaname), 2)

\* the nids and uuids of the strplaname rows before the split
SplitInIds ==
    {split_in.strplaname[i].nid : i \in 1..Len(split_in.strplaname)}
    \cup {split_in.strplaname[i].uuid : i \in 1..Len(split_in.strplaname)}

\* C7 (as claimed): a split strplaname holds, for each source row, a left copy with
\* the first elements and a right copy with the second elements of the packed
\* columns, and the nid and the uuid of both copies are new.
C7_BothCopiesFresh ==
    SplitDone =>
        /\ SplitInTwo
        /\ \A i \in 1..Len(strplaname) :
              strplaname[i].nid \notin SplitInIds /\ strplaname[i].uuid \notin SplitInIds

\* C7 (amended): a split strplaname holds, for each source row, a left copy with the
\* first elements and a right copy with the second elements of the packed columns;
\* the left copy keeps the nid and the uuid of the source row, the right copy has a
\* new nid and a new uuid, different from every other identifier of the table.
C7_RightCopyFresh ==
    SplitDone =>
        /\ SplitInTwo
        /\ \A i \in 1..Len(split_in.strplaname) :
              /\ strplaname[i].nid = split_in.strplaname[i].nid
              /\ strplaname[i].uuid = split_in.strplaname[i].uuid
              /\ strplaname[Len(split_in.strplaname) + i].nid \notin SplitInIds
              /\ strplaname[Len(split_in.strplaname) + i].uuid \notin SplitInIds
              /\ strplaname[Len(split_in.strplaname) + i].nid
                    # strplaname[Len(split_in.strplaname) + i].uuid
        /\ \A i, j \in 1..Len(strplaname) :
              i # j => /\ strplaname[i].nid # strplaname[j].nid
                       /\ strplaname[i].uuid # strplaname[j].uuid

\* C7 witness: two rows packed in both name columns have been split into four.
C7_Witness ==
    /\ SplitDone
    /\ NestedCols(split_in.strplaname) = {"namebody", "placename"}
    /\ Len(split_in.strplaname) = 2
    /\ Len(strplaname) = 4

\* C8: after the split, an addrange l_offnanid that referenced a strplaname row holds
\* the nid of the left copy of that row, and an r_offnanid that referenced a row holds
\* the nid of its right copy, the value of nid_lookup {source nid -> right nid}.
C8_AddrangeSides ==
    (SplitDone /\ "addrange" \in target_gdframes) =>
        /\ Len(addrange) = Len(split_in.addrange)
        /\ Len(split_lookup) = Len(split_in.strplaname)
        /\ \A k \in 1..Len(split_lookup) :
              split_lookup[k] = <<split_in.strplaname[k].nid,
                                  strplaname[Len(split_in.strplaname) + k].nid>>
        /\ \A i \in 1..Len(addrange) : \A k \in 1..Len(split_in.strplaname) :
              /\ split_in.addrange[i].l_offnanid = split_in.strplaname[k].nid
                    => addrange[i].l_offnanid = strplaname[k].nid
              /\ split_in.addrange[i].r_offnanid = split_in.strplaname[k].nid
                    => /\ addrange[i].r_offnanid = strplaname[Len(split_in.strplaname) + k].nid
                       /\ addrange[i].r_offnanid = DictGet(split_lookup,
                                                           split_in.addrange[i].r_offnanid)

\* C8 witness: an addrange row referenced one source row on the left and another on
\* the right, and its right reference was rewritten.
C8_Witness ==
    /\ SplitDone
    /\ Len(split_in.strplaname) >= 2
    /\ \E i \in 1..Len(addrange) :
          /\ split_in.addrange[i].l_offnanid = split_in.strplaname[2].nid
          /\ split_in.addrange[i].r_offnanid = split_in.strplaname[1].nid
          /\ addrange[i].r_offnanid = strplaname[Len(split_in.strplaname) + 1].nid
          /\ addrange[i].r_offnanid # split_in.addrange[i].r_offnanid

\* filter_and_relink_strplaname has run to its end
FilterDone == s1_pc = "export_gpkg"

SameGroup(a, b) == a.namebody = b.namebody /\ a.placename = b.placename

\* row j is the first row of the group of row i
IsSurvivorOf(df, j, i) ==
    /\ SameGroup(df[j], df[i])
    /\ \A k \in 1..(j - 1) : ~SameGroup(df[k], df[i])

\* a reference to the nid of a row holds the nid of the first row of its group
RelinkedToSurvivor(before, after, df) ==
    \A i, j \in 1..Len(df) :
        (before = df[i].nid /\ IsSurvivorOf(df, j, i)) => after = df[j].nid

\* C9: the de-duplication keeps exactly the first row of each group of strplaname
\* rows equal on every column but uuid and nid, in their order, and every addrange
\* and altnamlink reference to a row of a group then holds the nid of the group's
\* first row.
C9_FirstOfGroupSurvives ==
    FilterDone =>
        /\ \A i \in 1..Len(filter_in.strplaname) :
              IsSurvivorOf(filter_in.strplaname, i, i)
                  <=> \E k \in 1..Len(strplaname) : strplaname[k] = filter_in.strplaname[i]
        /\ \A k \in 1..Len(strplaname) : \E i \in 1..Len(filter_in.strplaname) :
              /\ strplaname[k] = filter_in.strplaname[i]
              /\ k = Cardinality({j \in 1..i : IsSurvivorOf(filter_in.strplaname, j, j)})
        /\ Len(addrange) = Len(filter_in.addrange)
        /\ Len(altnamlink) = Len(filter_in.altnamlink)
        /\ \A x \in 1..Len(addrange) :
              /\ RelinkedToSurvivor(filter_in.addrange[x].l_offnanid,
                                    addrange[x].l_offnanid, filter_in.strplaname)
              /\ RelinkedToSurvivor(filter_in.addrange[x].r_offnanid,
                                    addrange[x].r_offnanid, filter_in.strplaname)
        /\ \A x \in 1..Len(altnamlink) :
              RelinkedToSurvivor(filter_in.altnamlink[x].strnamenid,
                                 altnamlink[x].strnamenid, filter_in.strplaname)

\* C9 witness: rows were removed, and a left, a right and an altnamlink reference to
\* a removed row were rewritten.
C9_Witness ==
    /\ FilterDone
    /\ Len(strplaname) < Len(filter_in.strplaname)
    /\ \E x \in 1..Len(addrange) :
          /\ addrange[x].l_offnanid # filter_in.addrange[x].l_offnanid
          /\ addrange[x].r_offnanid # filter_in.addrange[x].r_offnanid
    /\ \E x \in 1..Len(altnamlink) :
          altnamlink[x].strnamenid # filter_in.altnamlink[x].strnamenid

\* the nids of the strplaname rows
StrplanameNids == {strplaname[i].nid : i \in 1..Len(strplaname)}

\* C10: the stage-1 sequence ends without error; every addrange and altnamlink
\* reference then is the default value or the nid of a strplaname row, and a
\* reference that held the default value before the split holds it at the end.
C10_RefsResolveOrSentinel ==
    s1_pc \in {"export_gpkg", "exit"} =>
        /\ s1_err = ""
        /\ \A i \in 1..Len(addrange) :
              /\ addrange[i].l_offnanid \in {DefaultNid} \cup StrplanameNids
              /\ addrange[i].r_offnanid \in {DefaultNid} \cup StrplanameNids
        /\ \A i \in 1..Len(altnamlink) :
              altnamlink[i].strnamenid \in {DefaultNid} \cup StrplanameNids
        /\ \A i \in 1..Len(split_in.addrange) :
              /\ split_in.addrange[i].l_offnanid = DefaultNid
                    => addrange[i].l_offnanid = DefaultNid
              /\ split_in.addrange[i].r_offnanid = DefaultNid
                    => addrange[i].r_offnanid = DefaultNid

\* no two rows of a table carry the same nid
UniqueNids(rows) ==
    \A i, j \in 1..Len(rows) : i # j => rows[i].nid # rows[j].nid

\* C11: when the stage-1 sequence has run to its end, no two rows of strplaname, of
\* addrange or of altnamlink carry the same nid.
C11_NidsUniquePerTable ==
    s1_pc = "export_gpkg" =>
        UniqueNids(strplaname) /\ UniqueNids(addrange) /\ UniqueNids(altnamlink)

\* split_strplaname has just acted on a strplaname with packed columns while altnamlink
\* was a target table with rows, and the addrange relink before it raised nothing
SplitWithAltnamlink ==
    /\ s1_pc \in {"recover_missing_datasets", "exit"}
    /\ filter_in.strplaname = <<>>
    /\ NestedCols(split_in.strplaname) # {}
    /\ "altnamlink" \in target_gdframes
    /\ Len(altnamlink) > 0
    /\ s1_err # "KeyError"

\* C23: when strplaname is split and altnamlink exists with rows, split_strplaname
\* completes and leaves altnamlink as the source rows followed by one second copy per
\* row; the second copy has a fresh nid and uuid, strnamenid looked up in the nid map,
\* credate = today and revdate = the default.
C23_AltnamlinkDuplicated ==
    SplitWithAltnamlink =>
        /\ s1_err = ""
        /\ Len(altnamlink) % 2 = 0
        /\ \A i \in 1..(Len(altnamlink) \div 2) :
              /\ altnamlink[Len(altnamlink) \div 2 + i].strnamenid
                    = DictGet(split_lookup, altnamlink[i].strnamenid)
              /\ altnamlink[Len(altnamlink) \div 2 + i].credate = today
              /\ altnamlink[Len(altnamlink) \div 2 + i].revdate = DefaultRevdate
              /\ \A j \in 1..(Len(altnamlink) \div 2) :
                    /\ altnamlink[Len(altnamlink) \div 2 + i].nid # altnamlink[j].nid
                    /\ altnamlink[Len(altnamlink) \div 2 + i].uuid # altnamlink[j].uuid

(***************************************************************************)
(* nrn convert (geobasenrn/nrn/convert.py)                                 *)
(*                                                                         *)
(* A configuration file is a record: parses says whether yaml.safe_load    *)
(* succeeds, keys are the top-level keys of the mapping it loads, data is  *)
(* the file of its data source (stem and suffix of the filename) and       *)
(* conform lists the layers it maps. A dictionary keyed by layer is a      *)
(* function whose domain is the set of its keys.                           *)
(***************************************************************************)
MaxConfigs == 2

\* get_source_config: the files are loaded in order into one options dictionary; a file
\* that does not parse is logged and skipped, a file without data or without conform
\* raises ConfigurationError; source_index is list.index of the data source
get_source_config(files) ==
    LET RECURSIVE Load(_, _)
        Load(k, opts) ==
            IF k > Len(files) THEN [err |-> "", options |-> opts]
            ELSE IF ~files[k].parses THEN Load(k + 1, opts)
            ELSE IF "data" \notin files[k].keys
                 THEN [err |-> "ConfigurationError: Missing 'data' configuration.", options |-> opts]
            ELSE IF "conform" \notin files[k].keys
                 THEN [err |-> "ConfigurationError: Missing 'conform' configuration.", options |-> opts]
            ELSE Load(k + 1,
                      [source_layers |-> Append(opts.source_layers, files[k].data),
                       conform |->
                           [l \in Range(files[k].conform) |->
                               [source_index |->
                                   CHOOSE x \in 1..(Len(opts.source_layers) + 1) :
                                       /\ Append(opts.source_layers, files[k].data)[x] = files[k].data
                                       /\ \A y \in 1..(x - 1) : opts.source_layers[y] # files[k].data]]
                           @@ opts.conform])
    IN Load(1, [source_layers |-> <<>>, conform |-> <<>>])

\* get_source_data, with get_source_layer: a source whose suffix is .csv is read by
\* pd.read_csv; for any other source get_source_layer calls
\* nrnio.source_layer_to_dataframe, which geobasenrn.io does not define, and the
\* AttributeError leaves get_source_data without a frame
get_source_data(layer_info, roads, ferries) ==
    IF \E l \in DOMAIN layer_info.conform :
           (IF layer_info.source_layers[layer_info.conform[l].source_index].suffix = ".CSV"
            THEN ".csv"
            ELSE layer_info.source_layers[layer_info.conform[l].source_index].suffix) # ".csv"
    THEN [err |-> "AttributeError", frames |-> <<>>]
    ELSE [err |-> "",
          frames |-> [l \in DOMAIN layer_info.conform |->
                         IF layer_info.source_layers[layer_info.conform[l].source_index].stem = "roads"
                         THEN roads ELSE ferries]]

\* map_source_to_target_dframes: the field map of a layer is {nid: id}, a direct mapping
\* that renames the source column id to nid, and the filter on the fields of the table
\* keeps nid and geometry
map_source_to_target_dframes(frames) ==
    [l \in DOMAIN frames |->
        [i \in 1..Len(frames[l]) |->
            [geometry |-> frames[l][i].geometry, nid |-> frames[l][i].id]]]

\* lines 46-74: Path(admin_boundary_path) raises TypeError when --boundary is not given,
\* an output path that does not end in .gpkg raises BadOptionUsage, then
\* get_source_config
cv_get_source_config ==
    /\ cv_pc = "get_source_config"
    /\ IF cv_args.boundary = "None"
       THEN /\ cv_err' = "TypeError"
            /\ cv_pc' = "exit"
            /\ UNCHANGED <<source_config, cv_steps>>
       ELSE IF (IF cv_args.output_suffix = ".GPKG" THEN ".gpkg" ELSE cv_args.output_suffix) # ".gpkg"
       THEN /\ cv_err' = "BadOptionUsage"
            /\ cv_pc' = "exit"
            /\ UNCHANGED <<source_config, cv_steps>>
       ELSE IF get_source_config(config_files).err # ""
       THEN /\ cv_err' = get_source_config(config_files).err
            /\ cv_pc' = "exit"
            /\ UNCHANGED <<source_config, cv_steps>>
       ELSE /\ source_config' = get_source_config(config_files).options
            /\ cv_pc' = "get_source_data"
            /\ cv_steps' = Append(cv_steps, "get_source_config")
            /\ UNCHANGED cv_err
    /\ UNCHANGED <<cv_args, config_files, source_roads, source_ferries, dframes, previous_dframes, gpkg>>
    /\ UNCHANGED <<kmlvars, juncvars, s1vars, s4vars, urlvars, relvars, incvars, fmvars, chkvars>>

\* lines 76-82
cv_get_source_data ==
    /\ cv_pc = "get_source_data"
    /\ IF get_source_data(source_config, source_roads, source_ferries).err # ""
       THEN /\ cv_err' = get_source_data(source_config, source_roads, source_ferries).err
            /\ cv_pc' = "exit"
            /\ UNCHANGED <<dframes, cv_steps>>
       ELSE /\ dframes' = map_source_to_target_dframes(
                              get_source_data(source_config, source_roads, source_ferries).frames)
            /\ cv_pc' = "build_junctions"
            /\ cv_steps' = Append(cv_steps, "get_source_data")
            /\ UNCHANGED cv_err
    /\ UNCHANGED <<cv_args, config_files, source_roads, source_ferries, source_config,
                   previous_dframes, gpkg>>
    /\ UNCHANGED <<kmlvars, juncvars, s1vars, s4vars, urlvars, relvars, incvars, fmvars, chkvars>>

\* lines 93-101: get_statcan_admin_boundary_poly raises ValueError for a province code
\* that is none of its codes (the code comes from ctx.obj, set by the caller of convert)
\* and IndexError when the boundary file holds no polygon of the province;
\* build_junctions then starts with gpd.overlay(..., keep_geom_type=False) on road_df,
\* which is the pandas DataFrame read by pd.read_csv, or None when the configuration has
\* no roadseg layer: a geopandas whose overlay has no keep_geom_type raises TypeError at
\* the call, and neither value has the attributes overlay reads of a GeoDataFrame
cv_build_junctions ==
    /\ cv_pc = "build_junctions"
    /\ \E overlay_err \in {"TypeError: unexpected keyword argument 'keep_geom_type'",
                           "AttributeError"} :
          cv_err' = IF cv_args.province_code \notin {"ab", "bc", "mb", "nb", "nl", "ns", "nt",
                                                     "nu", "on", "pe", "qc", "sk", "yt"}
                    THEN "ValueError"
                    ELSE IF cv_args.boundary = "without the province" THEN "IndexError"
                    ELSE overlay_err
    /\ cv_pc' = "exit"
    /\ UNCHANGED <<cv_steps, dframes>>
    /\ UNCHANGED <<cv_args, config_files, source_roads, source_ferries, source_config,
                   previous_dframes, gpkg>>
    /\ UNCHANGED <<kmlvars, juncvars, s1vars, s4vars, urlvars, relvars, incvars, fmvars, chkvars>>

\* lines 103-108: a layer of the previous vintage is taken over when dframes has no
\* layer of that name. The step follows the junctions, which no run of convert gets
\* past.
cv_recover ==
    /\ cv_pc = "recover"
    /\ dframes' = [l \in DOMAIN dframes \cup DOMAIN previous_dframes |->
                       IF l \in DOMAIN dframes THEN dframes[l] ELSE previous_dframes[l]]
    /\ cv_pc' = "save_to_gpkg"
    /\ cv_steps' = Append(cv_steps, "recover")
    /\ UNCHANGED <<cv_err, cv_args, config_files, source_roads, source_ferries, source_config,
                   previous_dframes, gpkg>>
    /\ UNCHANGED <<kmlvars, juncvars, s1vars, s4vars, urlvars, relvars, incvars, fmvars, chkvars>>

\* lines 120-122 and save_to_gpkg, lines 124-144: the data source is created without a
\* layer, and the loop over the layers calls nrnio.create_layer, which geobasenrn.io
\* does not define: the first layer raises AttributeError and no layer is written
save_to_gpkg ==
    /\ cv_pc = "save_to_gpkg"
    /\ gpkg' = <<>>
    /\ IF DOMAIN dframes = {}
       THEN /\ cv_pc' = "done"
            /\ cv_steps' = Append(cv_steps, "save_to_gpkg")
            /\ UNCHANGED cv_err
       ELSE /\ cv_err' = "AttributeError"
            /\ cv_pc' = "exit"
            /\ UNCHANGED cv_steps
    /\ UNCHANGED <<cv_args, config_files, source_roads, source_ferries, source_config, dframes,
                   previous_dframes>>
    /\ UNCHANGED <<kmlvars, juncvars, s1vars, s4vars, urlvars, relvars, incvars, fmvars, chkvars>>

(***************************************************************************)
(* Claims about convert                                                    *)
(***************************************************************************)
\* C12: in the roadseg table convert has built from the source, every row whose geometry
\* equals the geometry of a row of the previous vintage carries the nid of that row.
C12_EqualGeometryKeepsNid ==
    "roadseg" \in DOMAIN dframes =>
        \A i \in 1..Len(dframes["roadseg"]) : \A j \in 1..Len(previous_dframes["roadseg"]) :
            dframes["roadseg"][i].geometry = previous_dframes["roadseg"][j].geometry
                => dframes["roadseg"][i].nid = previous_dframes["roadseg"][j].nid

\* C17: when one of the configuration files cannot be parsed, or has no data key, or has
\* no conform key, a run of convert that has called get_source_config has ended there
\* with a ConfigurationError: no source data is loaded and nothing is written.
C17_BadConfigIsFatal ==
    (/\ \E k \in 1..Len(config_files) :
          \/ ~config_files[k].parses
          \/ "data" \notin config_files[k].keys
          \/ "conform" \notin config_files[k].keys
     /\ cv_pc # "get_source_config"
     /\ cv_err \notin {"TypeError", "BadOptionUsage"})
    => /\ cv_pc = "exit"
       /\ cv_err \in {"ConfigurationError: Missing 'data' configuration.",
                      "ConfigurationError: Missing 'conform' configuration."}
       /\ source_config = <<>>
       /\ dframes = <<>>
       /\ gpkg = <<>>

\* C19: the steps of convert run one after the other, and the recovery of layers from the
\* previous vintage is complete when the generation of the junctions starts.
C19_RecoveryBeforeJunctions ==
    cv_pc = "build_junctions" => "recover" \in Range(cv_steps)

(***************************************************************************)
(* Domains and cleanup on text (field_map_functions.apply_domain,          *)
(* Stage.apply_domains, Stage.clean_datasets)                              *)
(*                                                                         *)
(* Here a string is the sequence of its characters, so that str.lower,     *)
(* str.title, str.strip and re.sub are computed character by character.    *)
(* The letters of the model are a, b, A, B; NaN is the one-element         *)
(* sequence <<"NaN">>. The table is roadseg with the columns nid (an       *)
(* identifier), roadsegid, rtename1en (a route name) and pavstatus (a      *)
(* column with a domain).                                                  *)
(***************************************************************************)
MaxLen == 2

\* str.lower
str_lower(s) ==
    [i \in 1..Len(s) |-> CASE s[i] = "A" -> "a" [] s[i] = "B" -> "b" [] OTHER -> s[i]]

\* str.islower: at least one cased character and no upper-case one
str_islower(s) ==
    /\ \E i \in 1..Len(s) : s[i] \in {"a", "b", "A", "B"}
    /\ \A i \in 1..Len(s) : s[i] \notin {"A", "B"}

\* str.title: a letter is upper case after an uncased character or at the start, and
\* lower case after a letter
str_title(s) ==
    [i \in 1..Len(s) |->
        IF i > 1 /\ s[i - 1] \in {"a", "b", "A", "B"}
        THEN (CASE s[i] = "A" -> "a" [] s[i] = "B" -> "b" [] OTHER -> s[i])
        ELSE (CASE s[i] = "a" -> "A" [] s[i] = "b" -> "B" [] OTHER -> s[i])]

\* str.istitle: at least one letter, and every letter has the case str.title gives it
str_istitle(s) ==
    /\ \E i \in 1..Len(s) : s[i] \in {"a", "b", "A", "B"}
    /\ \A i \in 1..Len(s) : s[i] \in {"a", "b", "A", "B"} => s[i] = str_title(s)[i]

\* re.sub(r" +", " ", str(val.strip())): no leading or trailing space, one space for
\* each run of spaces inside
re_sub_strip(s) ==
    LET keep == SelectIdx(s, LAMBDA i :
                    \/ s[i] # " "
                    \/ /\ i > 1
                       /\ s[i - 1] # " "
                       /\ \E j \in (i + 1)..Len(s) : s[j] # " ")
    IN  [k \in 1..Len(keep) |-> s[keep[k]]]

\* the domain of pavstatus: code 1 with the labels A (en) and B (fr), code 11 with the
\* labels Ab (en) and Ba (fr); lookup maps a code to its labels, free says lookup is None
PavstatusDomain ==
    [free |-> FALSE,
     lookup |-> << <<(<<"1">>), << <<"A">>, <<"B">> >> >>,
                   <<(<<"1", "1">>), << <<"A", "b">>, <<"B", "a">> >> >> >>]

\* apply_domain with exact comparison of the value with keys and labels
apply_domain_cased(val, domain, default) ==
    IF domain.free
    THEN (IF val = <<>> \/ val = <<"NaN">> THEN default ELSE val)
    ELSE IF \E k \in 1..Len(domain.lookup) : val = domain.lookup[k][1]
    THEN domain.lookup[CHOOSE k \in 1..Len(domain.lookup) : val = domain.lookup[k][1]][2][1]
    ELSE IF \E k \in 1..Len(domain.lookup) : val \in Range(domain.lookup[k][2])
    THEN domain.lookup[CHOOSE k \in 1..Len(domain.lookup) :
                          /\ val \in Range(domain.lookup[k][2])
                          /\ \A j \in 1..(k - 1) : val \notin Range(domain.lookup[j][2])][2][1]
    ELSE default

\* field_map_functions.apply_domain(val, domain, default) for a domain dictionary:
\* without a lookup the value is kept unless it is '' or NaN; with one, str(val).lower()
\* is compared with the lower-cased keys and then with the lower-cased values of each
\* entry in order, and the first value of the matching entry is returned
apply_domain_dict(val, domain, default) ==
    IF domain.free
    THEN (IF val = <<>> \/ val = <<"NaN">> THEN default ELSE val)
    ELSE IF \E k \in 1..Len(domain.lookup) :
                str_lower(IF val = <<"NaN">> THEN <<"n", "a", "n">> ELSE val)
                    = str_lower(domain.lookup[k][1])
    THEN domain.lookup[CHOOSE k \in 1..Len(domain.lookup) :
                          /\ str_lower(IF val = <<"NaN">> THEN <<"n", "a", "n">> ELSE val)
                                = str_lower(domain.lookup[k][1])
                          /\ \A j \in 1..(k - 1) :
                                str_lower(IF val = <<"NaN">> THEN <<"n", "a", "n">> ELSE val)
                                    # str_lower(domain.lookup[j][1])][2][1]
    ELSE IF \E k \in 1..Len(domain.lookup) :
                str_lower(IF val = <<"NaN">> THEN <<"n", "a", "n">> ELSE val)
                    \in {str_lower(x) : x \in Range(domain.lookup[k][2])}
    THEN domain.lookup[CHOOSE k \in 1..Len(domain.lookup) :
                          /\ str_lower(IF val = <<"NaN">> THEN <<"n", "a", "n">> ELSE val)
                                \in {str_lower(x) : x \in Range(domain.lookup[k][2])}
                          /\ \A j \in 1..(k - 1) :
                                str_lower(IF val = <<"NaN">> THEN <<"n", "a", "n">> ELSE val)
                                    \notin {str_lower(x) : x \in Range(domain.lookup[j][2])}][2][1]
    ELSE default

\* the columns of the roadseg table of this part
RoadsegFields == <<"nid", "roadsegid", "rtename1en", "pavstatus">>

\* "for field, domain in self.domains[table].items()": the fields taken before the
\* first one that is no column of the table, where self.target_gdframes[table][field]
\* raises KeyError (line 78)
FieldsBeforeError(fields) ==
    {fields[k] : k \in {n \in 1..Len(fields) :
                            \A j \in 1..n : fields[j] \in Range(RoadsegFields)}}

\* Stage.apply_domains on the rows of roadseg, for the given fields: nid, roadsegid and
\* rtename1en have no lookup and the default None (roadsegid an integer, neither '' nor
\* NaN), pavstatus has the lookup above and the default Unknown. helpers.apply_domain
\* on a column is field_map_functions.apply_domain on each of its values
S4Domains(rows, fields) ==
    [i \in 1..Len(rows) |->
        [nid        |-> IF "nid" \in fields
                        THEN apply_domain_dict(rows[i].nid, [free |-> TRUE, lookup |-> <<>>],
                                               <<"N", "o", "n", "e">>)
                        ELSE rows[i].nid,
         roadsegid  |-> rows[i].roadsegid,
         rtename1en |-> IF "rtename1en" \in fields
                        THEN apply_domain_dict(rows[i].rtename1en,
                                               [free |-> TRUE, lookup |-> <<>>],
                                               <<"N", "o", "n", "e">>)
                        ELSE rows[i].rtename1en,
         pavstatus  |-> IF "pavstatus" \in fields
                        THEN apply_domain_dict(rows[i].pavstatus, PavstatusDomain,
                                               <<"U", "n", "k", "n", "o", "w", "n">>)
                        ELSE rows[i].pavstatus]]

\* Stage.clean_datasets on the rows of roadseg, up to the sweep upto: lower_case_ids
\* on nid ("lower"); then overwrite_roadsegid and strip_whitespace on every text
\* column ("strip"); then, when the loop of lines 338-340 gets to roadseg,
\* title_case_route_names on rtename1en ("title")
S4Clean(rows, upto) ==
    [i \in 1..Len(rows) |->
        [nid        |-> IF upto = "lower"
                        THEN IF rows[i].nid # <<"N", "o", "n", "e">>
                                /\ ~str_islower(rows[i].nid)
                             THEN str_lower(rows[i].nid) ELSE rows[i].nid
                        ELSE re_sub_strip(IF rows[i].nid # <<"N", "o", "n", "e">>
                                             /\ ~str_islower(rows[i].nid)
                                          THEN str_lower(rows[i].nid) ELSE rows[i].nid),
         roadsegid  |-> IF upto = "lower" THEN rows[i].roadsegid ELSE i,
         rtename1en |-> IF upto = "lower" THEN rows[i].rtename1en
                        ELSE IF upto = "title"
                                /\ re_sub_strip(rows[i].rtename1en) # <<"N", "o", "n", "e">>
                                /\ ~str_istitle(re_sub_strip(rows[i].rtename1en))
                             THEN str_title(re_sub_strip(rows[i].rtename1en))
                             ELSE re_sub_strip(rows[i].rtename1en),
         pavstatus  |-> IF upto = "lower" THEN rows[i].pavstatus
                        ELSE re_sub_strip(rows[i].pavstatus)]]

\* Stage.apply_domains: a field of the schema definition that the table lacks raises
\* KeyError, which is caught, logged as an invalid schema definition and turned into
\* sys.exit(1) (lines 104-106); the fields taken before it keep their new values
s4_apply_domains ==
    /\ s4_pc = "apply_domains"
    /\ s4_before' = s4_table
    /\ s4_table' = S4Domains(s4_table, FieldsBeforeError(s4_domains))
    /\ s4_err' = IF Range(s4_domains) \subseteq Range(RoadsegFields) THEN "" ELSE "SystemExit"
    /\ s4_pc' = IF s4_err' = "" THEN "clean_datasets" ELSE "exit"
    /\ UNCHANGED <<s4_tables, s4_ferryseg, s4_domains>>
    /\ UNCHANGED <<kmlvars, juncvars, s1vars, cvvars, urlvars, relvars, incvars, fmvars, chkvars>>

\* Stage.clean_datasets: on a ferryseg without rows lower_case_ids raises KeyError
\* (line 252), with roadseg in lower case only when the dictionary has it before
\* ferryseg (first), and nothing else has run. Otherwise the title case loop takes
\* ferryseg first (line 338), a KeyError at line 339 without that table, after the
\* three sweeps before it and before roadseg gets its title case
s4_clean_datasets ==
    /\ s4_pc = "clean_datasets"
    /\ IF "ferryseg" \in s4_tables /\ s4_ferryseg = 0
       THEN /\ \E first \in BOOLEAN :
                  s4_table' = IF first THEN S4Clean(s4_table, "lower") ELSE s4_table
            /\ s4_err' = "KeyError"
       ELSE /\ s4_table' = S4Clean(s4_table, IF "ferryseg" \in s4_tables
                                             THEN "title" ELSE "strip")
            /\ s4_err' = IF "ferryseg" \in s4_tables THEN "" ELSE "KeyError"
    /\ s4_pc' = IF s4_err' = "" THEN "done" ELSE "exit"
    /\ UNCHANGED <<s4_tables, s4_ferryseg, s4_domains, s4_before>>
    /\ UNCHANGED <<kmlvars, juncvars, s1vars, cvvars, urlvars, relvars, incvars, fmvars, chkvars>>

(***************************************************************************)
(* Claims about domains and cleanup                                        *)
(***************************************************************************)
\* the entries of the pavstatus lookup whose code or one of whose labels is the value,
\* letter case apart
Matching(val) ==
    {k \in 1..Len(PavstatusDomain.lookup) :
        str_lower(val) \in {str_lower(PavstatusDomain.lookup[k][1])}
                              \cup {str_lower(x) : x \in Range(PavstatusDomain.lookup[k][2])}}

\* C13: apply_domain gives a pavstatus value that matches an entry of the domain, letter
\* case apart, the first value of an entry it matches, and gives the default to '', NaN
\* and every value that matches no entry; the result is a first value or the default.
C13_DomainOrDefault ==
    s4_pc = "clean_datasets" =>
        \A i \in 1..Len(s4_table) :
            /\ s4_before[i].pavstatus \in {<<>>, <<"NaN">>}
                   => s4_table[i].pavstatus = <<"U", "n", "k", "n", "o", "w", "n">>
            /\ Matching(s4_before[i].pavstatus) = {}
                   => s4_table[i].pavstatus = <<"U", "n", "k", "n", "o", "w", "n">>
            /\ Matching(s4_before[i].pavstatus) # {}
                   => s4_table[i].pavstatus \in
                          {PavstatusDomain.lookup[k][2][1] : k \in Matching(s4_before[i].pavstatus)}
            /\ s4_table[i].pavstatus \in
                   {PavstatusDomain.lookup[k][2][1] : k \in 1..Len(PavstatusDomain.lookup)}
                       \cup {<<"U", "n", "k", "n", "o", "w", "n">>}

\* a value in other letter case than the label of its entry was replaced by the first value
C13_Witness ==
    /\ s4_pc = "clean_datasets"
    /\ s4_before[1].pavstatus = <<"b", "A">>
    /\ s4_table[1].pavstatus = <<"A", "b">>

\* C14: when apply_domains and clean_datasets have run, applying both to the tables
\* they left changes no value.
C14_S4Idempotent ==
    s4_pc = "done" => S4Clean(S4Domains(s4_table, Range(RoadsegFields)), "title") = s4_table

(***************************************************************************)
(* geobasenrn.io.get_url                                                   *)
(*                                                                         *)
(* url_fails[k] says whether the k-th requests.get raises TimeoutError or  *)
(* a RequestException. One action is one pass of the for loop.             *)
(***************************************************************************)
MaxAttempts == 4

\* one pass of "for attempt in range(max_attempts)": requests.get returns a response,
\* which get_url returns, or raises; the handler raises the error when
\* attempt < max_attempts and otherwise sleeps 5 seconds and goes on
url_request ==
    /\ url_pc = "loop"
    /\ url_attempt < max_attempts
    /\ url_requests' = url_requests + 1
    /\ IF ~url_fails[url_attempt + 1]
       THEN /\ url_pc' = "returned response"
            /\ UNCHANGED <<url_attempt, url_sleeps>>
       ELSE IF url_attempt < max_attempts
       THEN /\ url_pc' = "raised"
            /\ UNCHANGED <<url_attempt, url_sleeps>>
       ELSE /\ url_sleeps' = url_sleeps + 1
            /\ url_attempt' = url_attempt + 1
            /\ UNCHANGED url_pc
    /\ UNCHANGED <<max_attempts, url_fails>>
    /\ UNCHANGED <<kmlvars, juncvars, s1vars, cvvars, s4vars, relvars, incvars, fmvars, chkvars>>

\* the loop has run max_attempts times: get_url falls off its end and returns None
url_exhausted ==
    /\ url_pc = "loop"
    /\ url_attempt >= max_attempts
    /\ url_pc' = "returned None"
    /\ UNCHANGED <<url_attempt, url_requests, url_sleeps, max_attempts, url_fails>>
    /\ UNCHANGED <<kmlvars, juncvars, s1vars, cvvars, s4vars, relvars, incvars, fmvars, chkvars>>

(***************************************************************************)
(* Claims about get_url                                                    *)
(***************************************************************************)
\* C15: get_url makes at most max_attempts requests, returns the response of the first
\* request that succeeds, and raises the error only when max_attempts requests have failed.
C15_RaisesAfterFinalAttempt ==
    /\ url_requests <= max_attempts
    /\ url_pc = "returned response" =>
           /\ ~url_fails[url_requests]
           /\ \A k \in 1..(url_requests - 1) : url_fails[k]
    /\ url_pc = "raised" => url_requests = max_attempts

(***************************************************************************)
(* Stage 5: Stage.configure_release_version                                *)
(*                                                                         *)
(* rel_numbers is re.findall(r"\d+", url) on the url of the first resource *)
(* of the previous vintage, as integers; the version of the previous       *)
(* vintage is its last two numbers.                                        *)
(***************************************************************************)
MaxVersion == 2

\* the version rule on the first two numbers of the url in place of the last two
release_version_first_two(numbers, year, now) ==
    IF year = now
    THEN <<numbers[1], numbers[2] + 1>>
    ELSE <<numbers[1] + 1, 0>>

\* lines 76-84: <<major_version, minor_version>> from the numbers of the url, the
\* release year of the previous vintage and the current year
release_version(numbers, year, now) ==
    IF year = now
    THEN <<numbers[Len(numbers) - 1], numbers[Len(numbers)] + 1>>
    ELSE <<numbers[Len(numbers) - 1] + 1, 0>>

configure_release_version ==
    /\ rel_pc = "configure_release_version"
    /\ major_version' = release_version(rel_numbers, release_year, now_year)[1]
    /\ minor_version' = release_version(rel_numbers, release_year, now_year)[2]
    /\ rel_pc' = "done"
    /\ UNCHANGED <<rel_numbers, release_year, now_year>>
    /\ UNCHANGED <<kmlvars, juncvars, s1vars, cvvars, s4vars, urlvars, incvars, fmvars, chkvars>>

(***************************************************************************)
(* Claims about the release version                                        *)
(***************************************************************************)
\* C16: with (pmajor, pminor) the version of the previous vintage, the version is
\* (pmajor, pminor + 1) when the previous release year is the current year, and
\* (pmajor + 1, 0) otherwise.
C16_ReleaseVersion ==
    rel_pc = "done" =>
        IF release_year = now_year
        THEN /\ major_version = rel_numbers[Len(rel_numbers) - 1]
             /\ minor_version = rel_numbers[Len(rel_numbers)] + 1
        ELSE /\ major_version = rel_numbers[Len(rel_numbers) - 1] + 1
             /\ minor_version = 0

\* a vintage of an earlier year, with a minor version above 0 and a number before the
\* version in its url, was followed by the next major version
C16_Witness ==
    /\ rel_pc = "done"
    /\ release_year # now_year
    /\ Len(rel_numbers) = 3
    /\ rel_numbers[1] # rel_numbers[2]
    /\ rel_numbers[3] > 0
    /\ major_version = rel_numbers[2] + 1
    /\ minor_version = 0

(***************************************************************************)
(* field_map_functions.incrementor                                         *)
(*                                                                         *)
(* The one-row table counter of the in-memory SQLite database is a         *)
(* function from column names to integers. SQLite compares column names    *)
(* without regard to letter case, so a column is kept under the lower-case *)
(* spelling of its name. inc_args gives the start and step with which each *)
(* name is called.                                                         *)
(***************************************************************************)
MaxCalls == 3

\* incrementor(val, column, start, step): "alter table counter add <column> integer
\* default <start>" adds the column unless the table has it (the OperationalError is
\* ignored), the value of the column is read and returned, and the column is
\* increased by step
incrementor ==
    /\ Len(inc_calls) < MaxCalls
    /\ \E column \in DOMAIN inc_args :
          /\ inc_calls' = Append(inc_calls,
                 [column |-> column,
                  count  |-> IF str_lower(column) \in DOMAIN counter
                             THEN counter[str_lower(column)]
                             ELSE inc_args[column].start])
          /\ counter' = (str_lower(column) :>
                            (IF str_lower(column) \in DOMAIN counter
                             THEN counter[str_lower(column)]
                             ELSE inc_args[column].start) + inc_args[column].step)
                        @@ counter
    /\ UNCHANGED inc_args
    /\ UNCHANGED <<kmlvars, juncvars, s1vars, cvvars, s4vars, urlvars, relvars, fmvars, chkvars>>

(***************************************************************************)
(* Claims about incrementor                                                *)
(***************************************************************************)
\* C18: the k-th call of incrementor for a name returns start + (k - 1) * step of that
\* name, whatever calls were made for other names.
C18_CountersPerName ==
    \A k \in 1..Len(inc_calls) :
        inc_calls[k].count =
            inc_args[inc_calls[k].column].start
            + inc_args[inc_calls[k].column].step
                * Cardinality({j \in 1..(k - 1) : inc_calls[j].column = inc_calls[k].column})

(***************************************************************************)
(* geobasenrn.tools.apply_functions_to_fields                              *)
(*                                                                         *)
(* An entry of field_schema['functions'] is its function name and the      *)
(* pattern among its args ("None" when it has none). The patterns "(" and  *)
(* "(a" are ones that re cannot compile, "(a)" is one it can.              *)
(***************************************************************************)
MaxFuncs == 2

\* lines 59-61: the functions applied to the whole DataFrame
df_dispatcher == {"concat"}

\* lines 63-67: the functions applied to a Series
series_dispatcher == {"replace", "extract", "extract_domain"}

\* lines 14-41, the pattern of a Series function: col.str.replace compiles a pattern
\* of more than one character and replaces a pattern of one character literally;
\* col.str.extract compiles every pattern
raises_re_error(function, pattern) ==
    IF function = "replace" THEN pattern = "(a" ELSE pattern \in {"(", "(a"}

\* lines 76-90, the loop from entry k on: a function of a dispatcher is called, and a
\* pattern that is compiled and does not compile raises re.error out of the call; any
\* other name is logged as ignored and the loop goes on
RECURSIVE call_functions(_, _, _)
call_functions(functions, k, out) ==
    IF k > Len(functions) THEN out
    ELSE IF functions[k].function \in df_dispatcher
    THEN call_functions(functions, k + 1, [out EXCEPT !.applied = Append(@, k)])
    ELSE IF functions[k].function \in series_dispatcher
    THEN IF ~raises_re_error(functions[k].function, functions[k].pattern)
         THEN call_functions(functions, k + 1, [out EXCEPT !.applied = Append(@, k)])
         ELSE [out EXCEPT !.err = "re.error"]
    ELSE call_functions(functions, k + 1, [out EXCEPT !.ignored = Append(@, k)])

\* apply_functions_to_fields(df, target_field, field_schema)
apply_functions_to_fields ==
    /\ fm_pc = "call"
    /\ fm_applied' = call_functions(field_schema, 1, [applied |-> <<>>, ignored |-> <<>>, err |-> ""]).applied
    /\ fm_ignored' = call_functions(field_schema, 1, [applied |-> <<>>, ignored |-> <<>>, err |-> ""]).ignored
    /\ fm_err' = call_functions(field_schema, 1, [applied |-> <<>>, ignored |-> <<>>, err |-> ""]).err
    /\ fm_pc' = IF fm_err' = "" THEN "returned" ELSE "raised"
    /\ UNCHANGED field_schema
    /\ UNCHANGED <<kmlvars, juncvars, s1vars, cvvars, s4vars, urlvars, relvars, incvars, chkvars>>

(***************************************************************************)
(* Claims about the field mapping functions                                *)
(***************************************************************************)
\* the entry names no function of the engine, or carries a pattern that does not compile
BadEntry(e) ==
    \/ e.function \notin df_dispatcher \cup series_dispatcher
    \/ e.function \in series_dispatcher /\ e.pattern \in {"(", "(a"}

\* C24: when an entry of the function chain has an invalid function name or a malformed
\* regex, the call ends with an error, and neither that entry nor any entry after it is
\* applied or skipped over.
C24_BadEntryIsFatal ==
    fm_pc \in {"returned", "raised"} =>
        \A k \in 1..Len(field_schema) :
            BadEntry(field_schema[k]) =>
                /\ fm_pc = "raised"
                /\ \A j \in Range(fm_applied) \cup Range(fm_ignored) : j < k

(***************************************************************************)
(* geobasenrn.validation (validation/__init__.py, validation/failures.py)  *)
(*                                                                         *)
(* A date is a sequence of digit characters, or <<"NaN">> for a null. A    *)
(* failure is the tuple <<record_id, failure_code, msg>>. The value a      *)
(* checker's run returns is the record [none, failures]: none says that it *)
(* is None. The failures list of a check lives as long as the check, and   *)
(* run returns that very list.                                             *)
(***************************************************************************)
max_failures_per_checker == 100

this_year == 2026

oldest_year == 1960

MaxRows == 2

MaxRuns == 2

RECURSIVE to_numeric(_)
\* pd.to_numeric of a text of digits
to_numeric(s) ==
    IF Len(s) = 1 THEN CharCode(s[1]) - 48
    ELSE 10 * to_numeric(SubSeq(s, 1, Len(s) - 1)) + CharCode(s[Len(s)]) - 48

\* Series.str[a:b]
str_slice(s, a, b) == SubSeq(s, a + 1, IF b < Len(s) THEN b ELSE Len(s))

\* ValidationCheck._record_failure: one failure per row of the selection, in table order
record_failure(df, rows, failure_code, msg) ==
    [k \in 1..Len(rows) |-> <<df[rows[k]].nid, failure_code, msg>>]

\* DateCheck._validate_not_empty
validate_not_empty(df) ==
    record_failure(df, SelectIdx(df, LAMBDA i : df[i].credate = <<"NaN">>),
                   "E102", "Missing date value")

\* DateCheck._validate_length: the rows whose value is none of the values of length 4, 6 or 8
validate_length(df) ==
    record_failure(df,
        SelectIdx(df, LAMBDA i :
            df[i].credate \notin {df[j].credate : j \in {n \in 1..Len(df) :
                /\ df[n].credate # <<"NaN">>
                /\ Len(df[n].credate) \in {4, 6, 8}}}),
        "E102", "Invalid date length")

\* DateCheck._validate_year: a comparison with the year of a null is False
validate_year(df) ==
    record_failure(df,
        SelectIdx(df, LAMBDA i : /\ df[i].credate # <<"NaN">>
                                 /\ to_numeric(str_slice(df[i].credate, 0, 4)) > this_year),
        "E102", "Year value cannot be in the future.")
    \o record_failure(df,
        SelectIdx(df, LAMBDA i : /\ df[i].credate # <<"NaN">>
                                 /\ to_numeric(str_slice(df[i].credate, 0, 4)) < oldest_year),
        "E102", "Year value should probably be before 1960.")

\* DateCheck._validate_month
validate_month(df) ==
    record_failure(df,
        SelectIdx(df, LAMBDA i : /\ df[i].credate # <<"NaN">>
                                 /\ Len(df[i].credate) > 4
                                 /\ \/ to_numeric(str_slice(df[i].credate, 4, 6)) < 1
                                    \/ to_numeric(str_slice(df[i].credate, 4, 6)) > 12),
        "E102", "Invalid month provided for date.")

\* DateCheck.run: the four validations append to self.failures (fs), which is returned
\* unless it is empty
DateCheck_run(df, fs) ==
    fs \o validate_not_empty(df) \o validate_length(df) \o validate_year(df) \o validate_month(df)

\* SpeedLimitCheck.run: _speed_too_low, _speed_too_high and _incorrect_speed_value append
\* to self.failures (fs); run itself has no return statement
SpeedLimitCheck_run(df, fs) ==
    fs \o record_failure(df, SelectIdx(df, LAMBDA i : df[i].speed < 5),
                         "E101", "Speed is below 5 kph")
       \o record_failure(df, SelectIdx(df, LAMBDA i : df[i].speed > 120),
                         "E101", "Speed is above 120 kph")
       \o record_failure(df, SelectIdx(df, LAMBDA i : df[i].speed % 5 = 0),
                         "E101", "Speed is not divisible by 5 kph")

\* checker.run() on the failures fs of the checker: the failures afterwards, and the
\* value returned
checker_run(check, df, fs) ==
    IF check = "DateCheck"
    THEN [failures |-> DateCheck_run(df, fs),
          result |-> [none |-> Len(DateCheck_run(df, fs)) = 0, failures |-> DateCheck_run(df, fs)]]
    ELSE [failures |-> SpeedLimitCheck_run(df, fs),
          result |-> [none |-> TRUE, failures |-> <<>>]]

\* the summary reported from max_failures_per_checker failures on
reported_from_threshold(check, result) ==
    IF result.none THEN <<>>
    ELSE IF Len(result.failures) >= max_failures_per_checker
    THEN <<[layer |-> "roadseg", record |-> "-", field |-> IF check = "DateCheck" THEN "credate" ELSE "speed",
            error |-> IF check = "DateCheck" THEN "E102" ELSE "E101",
            message |-> "Many records failed."]>>
    ELSE [k \in 1..Len(result.failures) |->
             [layer |-> "roadseg", record |-> result.failures[k][1], field |-> IF check = "DateCheck" THEN "credate" ELSE "speed",
              error |-> result.failures[k][2], message |-> result.failures[k][3]]]

\* run_checks, lines 45-51: the results reported for the value a checker returned
reported(check, result) ==
    IF result.none THEN <<>>
    ELSE IF Len(result.failures) > max_failures_per_checker
    THEN <<[layer |-> "roadseg", record |-> "-", field |-> IF check = "DateCheck" THEN "credate" ELSE "speed",
            error |-> IF check = "DateCheck" THEN "E102" ELSE "E101",
            message |-> "Many records failed."]>>
    ELSE [k \in 1..Len(result.failures) |->
             [layer |-> "roadseg", record |-> result.failures[k][1], field |-> IF check = "DateCheck" THEN "credate" ELSE "speed",
              error |-> result.failures[k][2], message |-> result.failures[k][3]]]

RECURSIVE run_each(_, _, _, _)
\* run_checks, the loop from checker k on; st holds the failures of the checkers, the
\* results and the calls made
run_each(cs, k, df, st) ==
    IF k > Len(cs) THEN st
    ELSE run_each(cs, k + 1, df,
             [failures |-> [st.failures EXCEPT ![cs[k]] = checker_run(cs[k], df, @).failures],
              results  |-> st.results
                              \o reported(cs[k], checker_run(cs[k], df, st.failures[cs[k]]).result),
              returns  |-> Append(st.returns,
                              [check    |-> cs[k],
                               result   |-> checker_run(cs[k], df, st.failures[cs[k]]).result,
                               reported |-> reported(cs[k],
                                   checker_run(cs[k], df, st.failures[cs[k]]).result)])])

\* DataFrameChecker.run_checks
run_checks ==
    /\ chk_runs < MaxRuns
    /\ checks # <<>>
    /\ chk_runs' = chk_runs + 1
    /\ \E st \in {run_each(checks, 1, chk_df,
                     [failures |-> failures, results |-> results, returns |-> chk_returns])} :
          /\ failures' = st.failures
          /\ results' = st.results
          /\ chk_returns' = st.returns
    /\ UNCHANGED <<chk_df, checks>>
    /\ UNCHANGED <<kmlvars, juncvars, s1vars, cvvars, s4vars, urlvars, relvars, incvars, fmvars>>

(***************************************************************************)
(* Claims about the validation                                             *)
(***************************************************************************)
\* C25: for each check run, run_checks records exactly one summary result and no
\* individual failure when the check returned more than max_failures_per_checker
\* failures, exactly one result per failure when it returned 1 to
\* max_failures_per_checker failures, and no result when it returned None; the results
\* hold nothing else.
C25_SummaryAboveThreshold ==
    /\ results = Concat([i \in 1..Len(chk_returns) |-> chk_returns[i].reported])
    /\ \A i \in 1..Len(chk_returns) :
          /\ chk_returns[i].result.none => chk_returns[i].reported = <<>>
          /\ ~chk_returns[i].result.none
                /\ Len(chk_returns[i].result.failures) > max_failures_per_checker =>
                    /\ Len(chk_returns[i].reported) = 1
                    /\ chk_returns[i].reported[1].message = "Many records failed."
          /\ ~chk_returns[i].result.none
                /\ Len(chk_returns[i].result.failures) <= max_failures_per_checker =>
                    /\ Len(chk_returns[i].reported) = Len(chk_returns[i].result.failures)
                    /\ \A k \in 1..Len(chk_returns[i].reported) :
                          /\ chk_returns[i].reported[k].record = chk_returns[i].result.failures[k][1]
                          /\ chk_returns[i].reported[k].message = chk_returns[i].result.failures[k][3]

\* one check has returned exactly max_failures_per_checker failures, reported one by
\* one, and one has returned more, reported as one summary
C25_Witness ==
    /\ \E i \in 1..Len(chk_returns) :
          /\ ~chk_returns[i].result.none
          /\ Len(chk_returns[i].result.failures) = max_failures_per_checker
          /\ Len(chk_returns[i].reported) = max_failures_per_checker
    /\ \E i \in 1..Len(chk_returns) :
          /\ ~chk_returns[i].result.none
          /\ Len(chk_returns[i].result.failures) > max_failures_per_checker
          /\ Len(chk_returns[i].reported) = 1

\* calendar.mdays and calendar.isleap, as _validate_day reads them
days_in_month(y, m) ==
    IF m = 2 THEN (IF y % 4 = 0 /\ (y % 100 # 0 \/ y % 400 = 0) THEN 29 ELSE 28)
    ELSE IF m \in {4, 6, 9, 11} THEN 30 ELSE 31

\* the date is empty, of a length other than 4, 6 and 8, or has a year, a month or a day
\* out of range
BadDate(d) ==
    \/ d = <<"NaN">>
    \/ Len(d) \notin {4, 6, 8}
    \/ to_numeric(str_slice(d, 0, 4)) \notin oldest_year..this_year
    \/ Len(d) >= 6 /\ to_numeric(str_slice(d, 4, 6)) \notin 1..12
    \/ /\ Len(d) = 8
       /\ to_numeric(str_slice(d, 6, 8))
              \notin 1..days_in_month(to_numeric(str_slice(d, 0, 4)), to_numeric(str_slice(d, 4, 6)))

\* C26: the failures DateCheck.run returns hold a failure for a record if and only if
\* its date is empty, or its length is not 4, 6 or 8, or its year is outside
\* [1960, current year], or its month is outside [1, 12], or its day is not valid for its
\* month and year.
C26_DateFailureIffInvalid ==
    \A r \in 1..Len(chk_returns) :
        chk_returns[r].check = "DateCheck" =>
            \A i \in 1..Len(chk_df) :
                (\E k \in 1..Len(chk_returns[r].result.failures) :
                     chk_returns[r].result.failures[k][1] = chk_df[i].nid)
                    <=> BadDate(chk_df[i].credate)

\* C27: once run_checks has run a SpeedLimitCheck, the results hold a failure of the
\* speed field for a record if and only if its speed is below 5, above 120 or not
\* divisible by 5.
C27_SpeedFailureIffInvalid ==
    chk_runs >= 1 /\ "SpeedLimitCheck" \in Range(checks) =>
        \A i \in 1..Len(chk_df) :
            (\E k \in 1..Len(results) :
                 results[k].field = "speed" /\ results[k].record = chk_df[i].nid)
                <=> (chk_df[i].speed < 5 \/ chk_df[i].speed > 120 \/ chk_df[i].speed % 5 # 0)

\* C30: a later run of the same DateCheck on the unchanged table returns the failures the
\* earlier run returned, no more and no fewer.
C30_DateCheckRunTwice ==
    \A r, q \in 1..Len(chk_returns) :
        r < q /\ chk_returns[r].check = "DateCheck" /\ chk_returns[q].check = "DateCheck" =>
            chk_returns[q].result = chk_returns[r].result

(***************************************************************************)
(* Specifications                                                          *)
(***************************************************************************)
\* each part starts with the other parts idle
InitKml == KmlInit /\ JuncOff /\ S1Off /\ AuxOff("kml")

InitJunc == JuncInit /\ KmlOff /\ S1Off /\ AuxOff("junctions")

InitStage1 == S1Init /\ KmlOff /\ JuncOff /\ AuxOff("stage_1")

\* convert starts from its options (a boundary file with or without a polygon of the
\* province, or none, an output path ending in .gpkg, .GPKG or .shp, a province code),
\* one or more configuration files (three
\* complete ones with a GeoPackage or a CSV source, one that is no YAML, one without the
\* data key, one without the conform key), the rows of the two data sources and a
\* previous vintage with or without a tollpoint layer
InitConvert ==
    /\ cv_pc = "get_source_config"
    /\ cv_err = ""
    /\ cv_steps = <<>>
    /\ cv_args \in {[boundary |-> "with the province", output_suffix |-> ".gpkg", province_code |-> "ab"],
                    [boundary |-> "with the province", output_suffix |-> ".GPKG", province_code |-> "zz"],
                    [boundary |-> "with the province", output_suffix |-> ".shp", province_code |-> "ab"],
                    [boundary |-> "without the province", output_suffix |-> ".gpkg", province_code |-> "ab"],
                    [boundary |-> "None", output_suffix |-> ".gpkg", province_code |-> "ab"]}
    /\ config_files \in SeqsUpTo(
           {[parses |-> TRUE,  keys |-> {"data", "conform"}, conform |-> <<"roadseg">>,
             data |-> [stem |-> "roads", suffix |-> ".gpkg"]],
            [parses |-> TRUE,  keys |-> {"data", "conform"}, conform |-> <<"roadseg">>,
             data |-> [stem |-> "roads", suffix |-> ".csv"]],
            [parses |-> TRUE,  keys |-> {"data", "conform"}, conform |-> <<"ferryseg">>,
             data |-> [stem |-> "ferries", suffix |-> ".CSV"]],
            [parses |-> FALSE, keys |-> {},                  conform |-> <<"roadseg">>,
             data |-> [stem |-> "roads", suffix |-> ".csv"]],
            [parses |-> TRUE,  keys |-> {"conform"},         conform |-> <<"roadseg">>,
             data |-> [stem |-> "roads", suffix |-> ".csv"]],
            [parses |-> TRUE,  keys |-> {"data"},            conform |-> <<"ferryseg">>,
             data |-> [stem |-> "ferries", suffix |-> ".CSV"]]},
           MaxConfigs) \ {<<>>}
    /\ source_roads \in {<<[geometry |-> line, id |-> n]>> :
                             line \in {<<ptW, ptC>>, <<ptC, ptN>>}, n \in {"s1", "p1"}}
    /\ source_ferries \in {<<>>, <<[geometry |-> <<ptC, ptE>>, id |-> "f1"]>>}
    /\ source_config = <<>>
    /\ dframes = <<>>
    /\ previous_dframes \in
           {("roadseg" :> <<[geometry |-> <<ptW, ptC>>, nid |-> "p1",
                             exitnbr |-> "None", accuracy |-> "10"]>>)
               @@ ("junction" :> <<>>) @@ extra :
            extra \in {<<>>, "tollpoint" :> <<[geometry |-> <<ptN>>, nid |-> "t1"]>>}}
    /\ gpkg = <<>>
    /\ KmlOff /\ JuncOff /\ S1Off /\ AuxOff("convert")

\* the text part starts from a roadseg table of one row: nid of one letter, roadsegid 0
\* or 7, a route name of up to MaxLen letters and spaces, and a pavstatus that is NaN or a
\* text of up to two characters; ferryseg is not mapped, or mapped with one row or
\* with none (its rows are counted, not followed); the schema
\* definition lists the columns of the table, or one more field that the table lacks
InitS4 ==
    /\ s4_pc = "apply_domains"
    /\ s4_table \in {<<[nid |-> n, roadsegid |-> r, rtename1en |-> t, pavstatus |-> v]>> :
                         n \in {<<"a">>, <<"A">>}, r \in {0, 7},
                         t \in SeqsUpTo({"a", "A", " "}, MaxLen),
                         v \in SeqsUpTo({"a", "A", "b", "B", "1"}, 2) \cup {<<"NaN">>}}
    /\ s4_before = <<>>
    /\ s4_err = ""
    /\ s4_tables \in {{"roadseg"}, {"roadseg", "ferryseg"}}
    /\ s4_ferryseg \in IF "ferryseg" \in s4_tables THEN {0, 1} ELSE {0}
    /\ s4_domains \in {RoadsegFields, <<"nid", "roadsegid", "trafficdir", "rtename1en",
                                        "pavstatus">>}
    /\ KmlOff /\ JuncOff /\ S1Off /\ AuxOff("S4")

\* get_url is called with max_attempts from 0 to MaxAttempts, and each request fails or not
InitUrl ==
    /\ url_pc = "loop"
    /\ url_attempt = 0
    /\ url_requests = 0
    /\ url_sleeps = 0
    /\ max_attempts \in 0..MaxAttempts
    /\ url_fails \in [1..MaxAttempts -> BOOLEAN]
    /\ KmlOff /\ JuncOff /\ S1Off /\ AuxOff("get_url")

\* the url of the previous vintage holds two or three numbers up to MaxVersion, and the
\* previous vintage was released this year or in one of the two years before
InitRelease ==
    /\ rel_pc = "configure_release_version"
    /\ rel_numbers \in [1..2 -> 0..MaxVersion] \cup [1..3 -> 0..MaxVersion]
    /\ release_year \in 2024..2026
    /\ now_year = 2026
    /\ major_version = "None"
    /\ minor_version = "None"
    /\ KmlOff /\ JuncOff /\ S1Off /\ AuxOff("release")

\* the module has created table counter with the column idx, value 0; the names a, A, b
\* and idx are each called with start 1 and step 1 or with start 5 and step 2
InitIncr ==
    /\ counter = (<<"i", "d", "x">> :> 0)
    /\ inc_args \in [{<<"a">>, <<"A">>, <<"b">>, <<"i", "d", "x">>}
                         -> {[start |-> 1, step |-> 1], [start |-> 5, step |-> 2]}]
    /\ inc_calls = <<>>
    /\ KmlOff /\ JuncOff /\ S1Off /\ AuxOff("incrementor")


\* the function chain of one target field holds up to MaxFuncs entries: a function of
\* the dispatchers or the name nosuch, with a pattern that compiles or not
InitMap ==
    /\ fm_pc = "call"
    /\ field_schema \in SeqsUpTo(
           {[function |-> f, pattern |-> x] :
                f \in series_dispatcher, x \in {"(a)", "(", "(a"}}
               \cup {[function |-> "concat", pattern |-> "None"],
                     [function |-> "nosuch", pattern |-> "(a)"]},
           MaxFuncs)
    /\ fm_applied = <<>>
    /\ fm_ignored = <<>>
    /\ fm_err = ""
    /\ KmlOff /\ JuncOff /\ S1Off /\ AuxOff("field_map")


\* a DataFrameChecker on a table of up to MaxRows rows, or of max_failures_per_checker or
\* one more rows with a year before 1960, with a DateCheck, a SpeedLimitCheck or both
InitCheck ==
    /\ chk_runs = 0
    /\ chk_df \in {[k \in 1..Len(t) |-> [nid |-> ToString(k), credate |-> t[k].credate, speed |-> t[k].speed]] :
                    t \in SeqsUpTo(
                            {[credate |-> <<"NaN">>, speed |-> 50],
                             [credate |-> <<"2", "0", "2">>, speed |-> 3],
                             [credate |-> <<"2", "0", "2", "0">>, speed |-> 5],
                             [credate |-> <<"1", "9", "5", "0">>, speed |-> 7],
                             [credate |-> <<"2", "0", "2", "7">>, speed |-> 120],
                             [credate |-> <<"2", "0", "2", "0", "1", "3">>, speed |-> 125],
                             [credate |-> <<"2", "0", "2", "0", "0", "6", "3", "1">>, speed |-> 50],
                             [credate |-> <<"2", "0", "2", "0", "0", "2", "2", "9">>, speed |-> 50]},
                            MaxRows)
                          \cup {[k \in 1..n |-> [credate |-> <<"1", "9", "5", "0">>, speed |-> 50]] :
                                    n \in {max_failures_per_checker, max_failures_per_checker + 1}}}
    /\ checks \in {<<"DateCheck">>, <<"SpeedLimitCheck">>,
                   <<"DateCheck", "SpeedLimitCheck">>, <<"SpeedLimitCheck", "DateCheck">>}
    /\ failures = [c \in Range(checks) |-> <<>>]
    /\ results = <<>>
    /\ chk_returns = <<>>
    /\ KmlOff /\ JuncOff /\ S1Off /\ AuxOff("validation")

SpecKml == InitKml /\ [][KmlNext]_vars

SpecJunc == InitJunc /\ [][build_junctions]_vars

SpecStage1 == InitStage1 /\ [][S1Next]_vars

SpecConvert == InitConvert /\ [][cv_get_source_config \/ cv_get_source_data \/ cv_build_junctions]_vars

SpecS4 == InitS4 /\ [][s4_apply_domains \/ s4_clean_datasets]_vars

SpecUrl == InitUrl /\ [][url_request \/ url_exhausted]_vars

SpecRelease == InitRelease /\ [][configure_release_version]_vars

SpecIncr == InitIncr /\ [][incrementor]_vars

SpecMap == InitMap /\ [][apply_functions_to_fields]_vars

SpecCheck == InitCheck /\ [][run_checks]_vars

====
